---- MODULE Spec2Model ----
(***************************************************************************)
(* Model of the kort.ing deal pipeline (fransjorden/korting):              *)
(*   - the JSON deal store (backend/deals_store.py, backend/models.py)     *)
(*   - the scrape run (scripts/run_scrapers.py, backend/scrapers/stores.py)*)
(*   - the affiliate feed parsers and the sqlite store                     *)
(*     (backend/feed_fetcher.py, backend/database.py)                      *)
(*   - the syndication scraper (backend/scrapers/pepper.py, base.py)       *)
(*                                                                         *)
(* Conventions.  Text is a sequence of one-character strings.  A float is  *)
(* an integer count of 1/Scale euro (Scale = 10000), exact for the texts   *)
(* of the model (at most three decimals).  A datetime is an integer day.   *)
(* An optional value is a record [some, v]; the euro sign is the           *)
(* character "EUR"; float('nan') is the number NaN, which no operation of  *)
(* the model treats as a quantity.                                         *)
(***************************************************************************)
EXTENDS Integers, Sequences, FiniteSets, TLC

\* ------------------------------------------------------------------ bounds
\* last day the clock reaches
MaxDay == 1
\* most product annotations on one fetched page
MaxItems == 2
\* most records data/deals.json holds when its functions are called one by one
MaxStored == 3
\* most admin requests in one behaviour
MaxAdmin == 1
\* last hour the clock of the feed cache reaches
MaxHours == 2
\* longest category text handed to the classifiers
MaxLen == 3

\* --------------------------------------------------------------- numbers
Scale == 100 * 100
Cent == 10 * 10

\* Python's None / a value, for Optional[float] and for a JSON field
None == [some |-> FALSE, v |-> 0]
Some(x) == [some |-> TRUE, v |-> x]
\* truth value of an Optional[float]: None and 0.0 are false
Truthy(p) == p.some /\ p.v # 0

\* float('nan'), under a number no price of the model reaches: it is not 0,
\* and every comparison with it is false
NaN == -2000000000
IsNaN(x) == x = NaN
Le(a, b) == ~IsNaN(a) /\ ~IsNaN(b) /\ a <= b
Lt(a, b) == ~IsNaN(a) /\ ~IsNaN(b) /\ a < b

Abs(x) == IF x < 0 THEN -x ELSE x

\* Python int(a / b): the quotient truncated toward zero (b # 0)
TruncDiv(a, b) ==
    LET q == Abs(a) \div Abs(b)
    IN  IF (a < 0) = (b < 0) THEN q ELSE -q

\* x * 1.2 and x * 1.25 on scaled values
Times12(x) == IF IsNaN(x) THEN NaN ELSE (x * 12) \div 10
Times125(x) == (x * 125) \div 100

\* round(x, 2): to the nearest cent, ties to the even cent
Round2(x) ==
    LET lo == (x \div Cent) * Cent
        r  == x - lo
    IN  IF IsNaN(x) THEN NaN
        ELSE IF r < Cent \div 2 THEN lo
        ELSE IF r > Cent \div 2 THEN lo + Cent
        ELSE IF (lo \div Cent) % 2 = 0 THEN lo ELSE lo + Cent

\* int(((original - sale) / original) * 100), for original # 0
\* (original = 0 is a ZeroDivisionError, which every caller handles first)
DiscountOf(original, sale) == TruncDiv((original - sale) * 100, original)

\* ------------------------------------------------------------------ text
Digits == {"0", "1", "2", "3", "4", "5", "6", "7", "8", "9"}

DigitVal(c) ==
    CASE c = "0" -> 0 [] c = "1" -> 1 [] c = "2" -> 2 [] c = "3" -> 3
      [] c = "4" -> 4 [] c = "5" -> 5 [] c = "6" -> 6 [] c = "7" -> 7
      [] c = "8" -> 8 [] c = "9" -> 9

RECURSIVE Pow10(_)
Pow10(n) == IF n = 0 THEN 1 ELSE 10 * Pow10(n - 1)

\* str.replace(old, new) for a one-character old; new is a text
RECURSIVE Replace(_, _, _)
Replace(s, old, new) ==
    IF s = <<>> THEN <<>>
    ELSE (IF Head(s) = old THEN new ELSE <<Head(s)>>) \o Replace(Tail(s), old, new)

\* str.replace(old, new, count)
RECURSIVE ReplaceN(_, _, _, _)
ReplaceN(s, old, new, count) ==
    IF s = <<>> \/ count = 0 THEN s
    ELSE IF Head(s) = old THEN new \o ReplaceN(Tail(s), old, new, count - 1)
    ELSE <<Head(s)>> \o ReplaceN(Tail(s), old, new, count)

\* str.count(c)
RECURSIVE Count(_, _)
Count(s, c) ==
    IF s = <<>> THEN 0 ELSE (IF Head(s) = c THEN 1 ELSE 0) + Count(Tail(s), c)

RECURSIVE LStrip(_)
LStrip(s) == IF s # <<>> /\ Head(s) = " " THEN LStrip(Tail(s)) ELSE s

RECURSIVE RStrip(_)
RStrip(s) ==
    IF s # <<>> /\ s[Len(s)] = " " THEN RStrip(SubSeq(s, 1, Len(s) - 1)) ELSE s

\* str.strip()
Strip(s) == RStrip(LStrip(s))

\* the value of a run of digits
RECURSIVE DigitsVal(_)
DigitsVal(s) ==
    IF s = <<>> THEN 0 ELSE DigitsVal(SubSeq(s, 1, Len(s) - 1)) * 10 + DigitVal(s[Len(s)])

AllDigits(s) == \A i \in 1..Len(s) : s[i] \in Digits

\* float(text): surrounding blanks, an optional sign, then "nan" in any case
\* or digits with at most one point and at least one digit; anything else is
\* a ValueError (None here).  Exponents, "inf" and underscores are not among
\* the texts of the model.
IsNanText(body) ==
    Len(body) = 3 /\ body[1] \in {"n", "N"} /\ body[2] \in {"a", "A"} /\ body[3] \in {"n", "N"}
FloatValue(neg, whole, frac) ==
    IF ~AllDigits(whole) \/ ~AllDigits(frac) \/ Len(whole) + Len(frac) = 0
    THEN None
    ELSE Some((IF neg THEN -1 ELSE 1)
              * (DigitsVal(whole) * Scale
                 + (IF Len(frac) <= 4
                    THEN DigitsVal(frac) * Pow10(4 - Len(frac))
                    ELSE DigitsVal(frac) \div Pow10(Len(frac) - 4))))

FloatSplit(neg, body, p) ==
    FloatValue(neg, SubSeq(body, 1, p - 1), SubSeq(body, p + 1, Len(body)))

FloatUnsigned(neg, body) ==
    IF IsNanText(body) THEN Some(NaN)
    ELSE IF Count(body, ".") > 1 THEN None
    ELSE IF Count(body, ".") = 1
         THEN FloatSplit(neg, body, CHOOSE i \in 1..Len(body) : body[i] = ".")
         ELSE FloatSplit(neg, body, Len(body) + 1)

FloatStripped(t) ==
    IF t = <<>> THEN None
    ELSE IF Head(t) \in {"-", "+"} THEN FloatUnsigned(Head(t) = "-", Tail(t))
    ELSE FloatUnsigned(FALSE, t)

ParseFloat(text) == FloatStripped(Strip(text))

\* the characters re.sub(r'[...]', '', s) removes in parse_price: the class in
\* the source holds the three characters of a mis-decoded euro sign and "$"
PriceClass == {"a-circumflex", "low-quote", "not-sign", "$"}

RECURSIVE RemoveAll(_, _)
RemoveAll(s, cls) ==
    IF s = <<>> THEN <<>>
    ELSE (IF Head(s) \in cls THEN <<>> ELSE <<Head(s)>>) \o RemoveAll(Tail(s), cls)

\* parse_price, after the currency characters and the comma are handled:
\* all points but the last are dropped ("1.234.56" is 1234.56)
PriceNormalized(s1) ==
    ParseFloat(IF Count(s1, ".") > 1 THEN ReplaceN(s1, ".", <<>>, Count(s1, ".") - 1) ELSE s1)

\* BaseScraper.parse_price
parse_price(price_str) ==
    IF price_str = <<>> THEN None
    ELSE PriceNormalized(Strip(Replace(RemoveAll(price_str, PriceClass), ",", <<".">>)))

\* ------------------------------------------------------------------ Deal
\* models.Deal, with the fields the pipeline reads or compares
Deal(id, title, merchant, original_price, sale_price, discount_percentage, category, valid_from, valid_until, source, status, created_at, is_active) ==
    [id |-> id, title |-> title, merchant |-> merchant,
     original_price |-> original_price, sale_price |-> sale_price,
     discount_percentage |-> discount_percentage, category |-> category,
     valid_from |-> valid_from, valid_until |-> valid_until, source |-> source,
     status |-> status, created_at |-> created_at, is_active |-> is_active]

PENDING == "pending"
APPROVED == "approved"
REJECTED == "rejected"

\* Deal.to_dict: the dates become isoformat text, written as a present value
to_dict(d) ==
    [d EXCEPT !.valid_from = Some(d.valid_from),
              !.valid_until = Some(d.valid_until),
              !.created_at = Some(d.created_at)]

\* Deal.from_dict at time t: a missing date becomes datetime.now()
from_dict(data, t) ==
    [data EXCEPT !.valid_from = IF data.valid_from.some THEN data.valid_from.v ELSE t,
                 !.valid_until = IF data.valid_until.some THEN data.valid_until.v ELSE t,
                 !.created_at = IF data.created_at.some THEN data.created_at.v ELSE t]

\* ------------------------------------------------------ deals_store.py
\* load_deals on the content f of data/deals.json
load_deals(f, t) == [i \in 1..Len(f) |-> from_dict(f[i], t)]

\* save_deals: the content written to data/deals.json
save_deals(deals) == [i \in 1..Len(deals) |-> to_dict(deals[i])]

IdsOf(deals) == {deals[i].id : i \in 1..Len(deals)}

\* an add that appends the deal whether or not its id is in the file
AddAlways(f, deal, t) ==
    [file |-> save_deals(Append(load_deals(f, t), deal)), ret |-> TRUE, saved |-> TRUE]

\* add_deal: [file |-> content afterwards, ret |-> result, saved |-> whether
\* save_deals was called]
add_deal(f, deal, t) ==
    LET deals == load_deals(f, t)
    IN  IF deal.id \in IdsOf(deals)
        THEN [file |-> f, ret |-> FALSE, saved |-> FALSE]
        ELSE [file |-> save_deals(Append(deals, deal)), ret |-> TRUE, saved |-> TRUE]

\* a loop that lets the deal of the batch take the place of the deal with
\* its id (what add_deals does not do)
RECURSIVE AddLoopFresh(_, _)
AddLoopFresh(deals, new_deals) ==
    IF new_deals = <<>> THEN deals
    ELSE IF Head(new_deals).id \notin IdsOf(deals)
         THEN AddLoopFresh(Append(deals, Head(new_deals)), Tail(new_deals))
         ELSE AddLoopFresh([i \in 1..Len(deals) |-> IF deals[i].id = Head(new_deals).id THEN Head(new_deals) ELSE deals[i]], Tail(new_deals))

\* the loop of add_deals over new_deals: the list with every deal whose id
\* is not yet in it appended
RECURSIVE AddLoop(_, _)
AddLoop(deals, new_deals) ==
    IF new_deals = <<>> THEN deals
    ELSE IF Head(new_deals).id \notin IdsOf(deals)
         THEN AddLoop(Append(deals, Head(new_deals)), Tail(new_deals))
         ELSE AddLoop(deals, Tail(new_deals))

\* add_deals: ret is the number added
add_deals(f, new_deals, t) ==
    LET deals == load_deals(f, t)
        after == AddLoop(deals, new_deals)
        added == Len(after) - Len(deals)
    IN  [file |-> IF added > 0 THEN save_deals(after) ELSE f, ret |-> added]

\* days an expired deal is retained (timedelta(days=7))
GraceDays == 7

\* a test that drops the deal of exactly GraceDays ago
KeptByCleanupStrict(d, t) == d.valid_until > t - GraceDays

\* the test of cleanup_expired_deals on one deal
KeptByCleanup(d, t) == d.valid_until >= t - GraceDays

\* a cleanup that writes the list back whether or not a deal was dropped
CleanupThatSaves(f, t) ==
    LET deals == load_deals(f, t)
        Keep(d) == KeptByCleanup(d, t)
        active_deals == SelectSeq(deals, Keep)
    IN  [file |-> save_deals(active_deals), ret |-> Len(deals) - Len(active_deals), saved |-> TRUE]

\* cleanup_expired_deals: ret is the number removed
cleanup_expired_deals(f, t) ==
    LET deals == load_deals(f, t)
        Keep(d) == KeptByCleanup(d, t)
        active_deals == SelectSeq(deals, Keep)
    IN  IF Len(active_deals) < Len(deals)
        THEN [file |-> save_deals(active_deals), ret |-> Len(deals) - Len(active_deals), saved |-> TRUE]
        ELSE [file |-> f, ret |-> 0, saved |-> FALSE]

\* update_deal: the first record with deal_id is replaced
update_deal(f, deal_id, updated_deal, t) ==
    LET deals == load_deals(f, t)
        hits == {i \in 1..Len(deals) : deals[i].id = deal_id}
    IN  IF hits = {}
        THEN [file |-> f, ret |-> FALSE, saved |-> FALSE]
        ELSE LET i == CHOOSE k \in hits : \A j \in hits : k <= j
             IN  [file |-> save_deals([deals EXCEPT ![i] = updated_deal]), ret |-> TRUE, saved |-> TRUE]

\* delete_deal: every record with deal_id is removed
delete_deal(f, deal_id, t) ==
    LET deals == load_deals(f, t)
        Keep(d) == d.id # deal_id
        rest == SelectSeq(deals, Keep)
    IN  IF Len(rest) < Len(deals)
        THEN [file |-> save_deals(rest), ret |-> TRUE, saved |-> TRUE]
        ELSE [file |-> f, ret |-> FALSE, saved |-> FALSE]

\* get_deal_by_id: the first record with deal_id, or None
get_deal_by_id(f, deal_id, t) ==
    LET deals == load_deals(f, t)
        hits == {i \in 1..Len(deals) : deals[i].id = deal_id}
    IN  IF hits = {} THEN None
        ELSE Some(deals[CHOOSE k \in hits : \A j \in hits : k <= j])

\* ------------------------------------------------------ scrapers/base.py
\* str.lower() and str.upper(), character by character
LowerChar(c) ==
    CASE c = "A" -> "a"
      [] c = "B" -> "b"
      [] c = "C" -> "c"
      [] c = "D" -> "d"
      [] c = "E" -> "e"
      [] c = "F" -> "f"
      [] c = "G" -> "g"
      [] c = "H" -> "h"
      [] c = "I" -> "i"
      [] c = "J" -> "j"
      [] c = "K" -> "k"
      [] c = "L" -> "l"
      [] c = "M" -> "m"
      [] c = "N" -> "n"
      [] c = "O" -> "o"
      [] c = "P" -> "p"
      [] c = "Q" -> "q"
      [] c = "R" -> "r"
      [] c = "S" -> "s"
      [] c = "T" -> "t"
      [] c = "U" -> "u"
      [] c = "V" -> "v"
      [] c = "W" -> "w"
      [] c = "X" -> "x"
      [] c = "Y" -> "y"
      [] c = "Z" -> "z"
      [] OTHER -> c

UpperChar(c) ==
    CASE c = "a" -> "A"
      [] c = "b" -> "B"
      [] c = "c" -> "C"
      [] c = "d" -> "D"
      [] c = "e" -> "E"
      [] c = "f" -> "F"
      [] c = "g" -> "G"
      [] c = "h" -> "H"
      [] c = "i" -> "I"
      [] c = "j" -> "J"
      [] c = "k" -> "K"
      [] c = "l" -> "L"
      [] c = "m" -> "M"
      [] c = "n" -> "N"
      [] c = "o" -> "O"
      [] c = "p" -> "P"
      [] c = "q" -> "Q"
      [] c = "r" -> "R"
      [] c = "s" -> "S"
      [] c = "t" -> "T"
      [] c = "u" -> "U"
      [] c = "v" -> "V"
      [] c = "w" -> "W"
      [] c = "x" -> "X"
      [] c = "y" -> "Y"
      [] c = "z" -> "Z"
      [] OTHER -> c

Lower(s) == [i \in 1..Len(s) |-> LowerChar(s[i])]
Upper(s) == [i \in 1..Len(s) |-> UpperChar(s[i])]

\* needle in text
Contains(text, needle) ==
    \E i \in 0..(Len(text) - Len(needle)) : SubSeq(text, i + 1, i + Len(needle)) = needle

\* text.startswith(prefix)
StartsWith(text, prefix) ==
    Len(text) >= Len(prefix) /\ SubSeq(text, 1, Len(prefix)) = prefix

\* ":".join(parts)
RECURSIVE JoinColon(_)
JoinColon(parts) ==
    IF parts = <<>> THEN <<>>
    ELSE IF Len(parts) = 1 THEN parts[1]
    ELSE parts[1] \o <<":">> \o JoinColon(Tail(parts))

\* BaseScraper.generate_id: the first 12 hex digits of the md5 of the joined
\* parts, represented by the joined text it is computed from
generate_id(parts) == JoinColon(parts)

\* BaseScraper.CATEGORY_KEYWORDS, in the order of the dict
CATEGORY_KEYWORDS == <<
    [category |-> "electronics", keywords |-> <<
        <<"t", "v">>,
        <<"l", "a", "p", "t", "o", "p">>,
        <<"t", "a", "b", "l", "e", "t">>,
        <<"t", "e", "l", "e", "f", "o", "o", "n">>,
        <<"p", "h", "o", "n", "e">>,
        <<"i", "p", "h", "o", "n", "e">>,
        <<"s", "a", "m", "s", "u", "n", "g">>,
        <<"s", "o", "n", "y">>,
        <<"c", "o", "m", "p", "u", "t", "e", "r">>,
        <<"g", "a", "m", "i", "n", "g">>,
        <<"p", "l", "a", "y", "s", "t", "a", "t", "i", "o", "n">>,
        <<"x", "b", "o", "x">>,
        <<"n", "i", "n", "t", "e", "n", "d", "o">>,
        <<"k", "o", "p", "t", "e", "l", "e", "f", "o", "o", "n">>,
        <<"h", "e", "a", "d", "p", "h", "o", "n", "e">>,
        <<"s", "p", "e", "a", "k", "e", "r">>,
        <<"c", "a", "m", "e", "r", "a">>,
        <<"d", "r", "o", "n", "e">>
    >>],
    [category |-> "fashion", keywords |-> <<
        <<"k", "l", "e", "d", "i", "n", "g">>,
        <<"s", "c", "h", "o", "e", "n", "e", "n">>,
        <<"s", "n", "e", "a", "k", "e", "r", "s">>,
        <<"n", "i", "k", "e">>,
        <<"a", "d", "i", "d", "a", "s">>,
        <<"m", "o", "d", "e">>,
        <<"s", "h", "i", "r", "t">>,
        <<"j", "e", "a", "n", "s">>,
        <<"j", "a", "s">>,
        <<"j", "a", "c", "k", "e", "t">>,
        <<"d", "r", "e", "s", "s">>,
        <<"j", "u", "r", "k">>
    >>],
    [category |-> "home", keywords |-> <<
        <<"m", "e", "u", "b", "e", "l">>,
        <<"b", "a", "n", "k">>,
        <<"s", "t", "o", "e", "l">>,
        <<"t", "a", "f", "e", "l">>,
        <<"k", "e", "u", "k", "e", "n">>,
        <<"b", "e", "d">>,
        <<"m", "a", "t", "r", "a", "s">>,
        <<"l", "a", "m", "p">>,
        <<"i", "k", "e", "a">>,
        <<"w", "o", "n", "e", "n">>,
        <<"t", "u", "i", "n">>,
        <<"g", "a", "r", "d", "e", "n">>
    >>],
    [category |-> "sports", keywords |-> <<
        <<"s", "p", "o", "r", "t">>,
        <<"f", "i", "t", "n", "e", "s", "s">>,
        <<"f", "i", "e", "t", "s">>,
        <<"b", "i", "k", "e">>,
        <<"v", "o", "e", "t", "b", "a", "l">>,
        <<"h", "a", "r", "d", "l", "o", "p", "e", "n">>,
        <<"g", "y", "m">>,
        <<"d", "e", "c", "a", "t", "h", "l", "o", "n">>
    >>],
    [category |-> "beauty", keywords |-> <<
        <<"p", "a", "r", "f", "u", "m">>,
        <<"m", "a", "k", "e", "u", "p">>,
        <<"s", "k", "i", "n", "c", "a", "r", "e">>,
        <<"s", "h", "a", "m", "p", "o", "o">>,
        <<"d", "o", "u", "g", "l", "a", "s">>,
        <<"k", "r", "u", "i", "d", "v", "a", "t">>,
        <<"b", "e", "a", "u", "t", "y">>,
        <<"c", "o", "s", "m", "e", "t", "i", "c", "a">>
    >>],
    [category |-> "food", keywords |-> <<
        <<"e", "t", "e", "n">>,
        <<"f", "o", "o", "d">>,
        <<"r", "e", "s", "t", "a", "u", "r", "a", "n", "t">>,
        <<"t", "h", "u", "i", "s", "b", "e", "z", "o", "r", "g", "d">>,
        <<"p", "i", "z", "z", "a">>,
        <<"a", "h">>,
        <<"j", "u", "m", "b", "o">>,
        <<"l", "i", "d", "l">>,
        <<"s", "u", "p", "e", "r", "m", "a", "r", "k", "t">>
    >>],
    [category |-> "travel", keywords |-> <<
        <<"r", "e", "i", "s">>,
        <<"t", "r", "a", "v", "e", "l">>,
        <<"h", "o", "t", "e", "l">>,
        <<"v", "l", "u", "c", "h", "t">>,
        <<"f", "l", "i", "g", "h", "t">>,
        <<"b", "o", "o", "k", "i", "n", "g">>,
        <<"v", "a", "k", "a", "n", "t", "i", "e">>,
        <<"k", "o", "f", "f", "e", "r">>
    >>]
>>

\* the categories, by place in the table, one of whose keywords occurs in text
CategoryHits(text) ==
    {i \in 1..Len(CATEGORY_KEYWORDS) :
        \E j \in 1..Len(CATEGORY_KEYWORDS[i].keywords) :
            Contains(text, CATEGORY_KEYWORDS[i].keywords[j])}

FirstCategory(hits) ==
    IF hits = {} THEN "other"
    ELSE CATEGORY_KEYWORDS[CHOOSE i \in hits : \A k \in hits : i <= k].category

\* str() of the title inside the f-string of detect_category: None is
\* formatted as "None"
Formatted(arg) == IF arg.some THEN arg.v ELSE <<"N", "o", "n", "e">>

\* BaseScraper.detect_category: the first category, in table order, one of
\* whose keywords occurs in the lower-cased "title description"
detect_category(title, description) ==
    FirstCategory(CategoryHits(Lower(title \o <<" ">> \o description)))

\* ---------------------------------------------------- scrapers/stores.py
\* STORES, in the order of the dict: the model keeps two of the configured
\* stores, one of each of two categories
STORES == <<
    [key |-> "bol", name |-> <<"B", "o", "l", ".", "c", "o", "m">>, slug |-> <<"b", "o", "l">>,
     category |-> "electronics", urls |-> <<"bol.com/aanbiedingen">>, json_ld |-> TRUE],
    [key |-> "ikea", name |-> <<"I", "K", "E", "A">>, slug |-> <<"i", "k", "e", "a">>,
     category |-> "home", urls |-> <<"ikea.com/aanbiedingen">>, json_ld |-> TRUE]
>>

StoreKeys == {STORES[i].key : i \in 1..Len(STORES)}
StoreConfigOf(key) == STORES[CHOOSE i \in 1..Len(STORES) : STORES[i].key = key]

\* list(STORES.keys())
AllStoreKeys == [i \in 1..Len(STORES) |-> STORES[i].key]

\* titles skipped as energy labels
EnergyLabels == {<<"A">>, <<"B">>, <<"C">>, <<"D">>, <<"E">>, <<"F">>, <<"G">>, <<"A", "+">>, <<"A", "+", "+">>, <<"A", "+", "+", "+">>}

MinTitleLen == 5
MinDiscount == 5
\* timedelta(days=7) of a scraped deal
StoreValidDays == 7
\* deals[:30]
StoreLimit == 30
\* matches[:15]
HtmlMatchLimit == 15
\* title[:100]
HtmlTitleLimit == 100

Prefix(s, n) == SubSeq(s, 1, IF Len(s) < n THEN Len(s) ELSE n)

\* _create_deal_from_data, lines 472-492: the Deal of a priced product
StoreDeal(title, original_price, sale_price, discount, detected, config, t) ==
    Deal(generate_id(<<config.slug, title>>), title, config.name, Round2(original_price), Round2(sale_price), discount, IF detected # "" THEN detected ELSE config.category, t, t + StoreValidDays, config.slug, APPROVED, t, TRUE)

\* _create_deal_from_data, lines 455-457: the discount and its threshold
DealIfDiscounted(title, original_price, sale_price, discount, config, t) ==
    IF discount < MinDiscount THEN None
    ELSE Some(StoreDeal(title, original_price, sale_price, discount, detect_category(title, <<>>), config, t))

\* _create_deal_from_data, lines 452-453: the repair of the original price
DealOfPrices(title, listed, sale_price, config, t) ==
    IF IsNaN(listed) \/ IsNaN(sale_price) THEN None   \* int() of nan: ValueError, line 494
    ELSE IF listed <= sale_price
    THEN DealIfDiscounted(title, Times12(sale_price), sale_price, DiscountOf(Times12(sale_price), sale_price), config, t)
    ELSE DealIfDiscounted(title, listed, sale_price, DiscountOf(listed, sale_price), config, t)

\* _create_deal_from_data, lines 446-450: high is the parsed text of the
\* first of highPrice, priceBeforeDiscount, listPrice that is present
DealOfSale(title, sale, high, config, t) ==
    IF ~Truthy(sale) \/ Le(sale.v, 0) THEN None
    ELSE DealOfPrices(title, IF Truthy(high) THEN high.v ELSE sale.v, sale.v, config, t)

DealOfTitle(title, data, config, t) ==
    IF title = <<>> \/ Len(title) < MinTitleLen THEN None
    ELSE IF Upper(title) \in EnergyLabels THEN None
    ELSE DealOfSale(title, parse_price(data.price), parse_price(data.high), config, t)

\* MultiStoreScraper._create_deal_from_data on a Product annotation
\* data = [name, price, high]: name is data['name'], price is
\* str(offers['price']), high is the text of the first of highPrice,
\* priceBeforeDiscount, listPrice that is present (<<>> when none is).
\* The result is Some(deal) or None.
create_deal_from_data(data, config, t) == DealOfTitle(Strip(data.name), data, config, t)

\* the deal of an optional result, as a list
ListOf(d) == IF d.some THEN <<d.v>> ELSE <<>>

\* MultiStoreScraper._parse_jsonld: products is the list of Product / Offer
\* annotations of the page in document order
RECURSIVE parse_jsonld(_, _, _)
parse_jsonld(products, config, t) ==
    IF products = <<>> THEN <<>>
    ELSE ListOf(create_deal_from_data(Head(products), config, t))
         \o parse_jsonld(Tail(products), config, t)

\* _parse_html_generic, lines 522-552, on the title and price of a match
HtmlDealOf(title, sale, config, t) ==
    IF title = <<>> \/ Len(title) < MinTitleLen \/ ~Truthy(sale) THEN None
    ELSE IF Lt(sale.v, 1 * Scale) THEN None
    ELSE IF Upper(title) \in EnergyLabels THEN None
    ELSE Some(Deal(generate_id(<<config.slug, title>>), Prefix(title, HtmlTitleLimit), config.name, Round2(Times12(sale.v)), Round2(sale.v), 20, config.category, t, t + StoreValidDays, config.slug, APPROVED, t, TRUE))

\* one match of a pattern of _parse_html_generic, a triple of texts:
\* Some(deal) or None (skipped)
HtmlDeal(match, config, t) ==
    IF StartsWith(match[1], <<"h", "t", "t", "p">>) \/ StartsWith(match[1], <<"/">>)
    THEN HtmlDealOf(Strip(match[2]), parse_price(match[3]), config, t)
    ELSE HtmlDealOf(Strip(match[1]), parse_price(match[2]), config, t)

RECURSIVE HtmlDeals(_, _, _)
HtmlDeals(matches, config, t) ==
    IF matches = <<>> THEN <<>>
    ELSE ListOf(HtmlDeal(Head(matches), config, t)) \o HtmlDeals(Tail(matches), config, t)

\* the first pattern that yields deals wins
FirstNonEmpty(first, cards, config, t) ==
    IF first # <<>> THEN first
    ELSE HtmlDeals(Prefix(cards[2], HtmlMatchLimit), config, t)

\* MultiStoreScraper._parse_html_generic: cards[k] is the list of matches
\* of pattern k in the page
parse_html_generic(cards, config, t) ==
    FirstNonEmpty(HtmlDeals(Prefix(cards[1], HtmlMatchLimit), config, t), cards, config, t)

\* a fetched page: kind "none" (fetch_url returned None), "raise" (parsing
\* the page raises) or "html" with its annotations and pattern matches
NoPage == [kind |-> "none", jsonld |-> <<>>, cards |-> << <<>>, <<>> >>]
BadPage == [kind |-> "raise", jsonld |-> <<>>, cards |-> << <<>>, <<>> >>]
HtmlPage(jsonld, cards1, cards2) ==
    [kind |-> "html", jsonld |-> jsonld, cards |-> <<cards1, cards2>>]

\* _scrape_store, lines 373-376: the pattern fallback when no deal is held
WithHtmlFallback(deals, page, config, t) ==
    IF deals = <<>> THEN deals \o parse_html_generic(page.cards, config, t) ELSE deals

\* _scrape_store, lines 368-376, on one fetched page
PageDeals(deals, page, config, t) ==
    IF config.json_ld
    THEN WithHtmlFallback(deals \o parse_jsonld(page.jsonld, config, t), page, config, t)
    ELSE WithHtmlFallback(deals, page, config, t)

\* the loop of MultiStoreScraper._scrape_store over the urls left, with the
\* deals found so far: [raised, deals]
RECURSIVE ScrapeUrls(_, _, _, _, _)
ScrapeUrls(urls, deals, config, pages, t) ==
    IF urls = <<>> THEN [raised |-> FALSE, deals |-> deals]
    ELSE IF pages[Head(urls)].kind = "none" THEN ScrapeUrls(Tail(urls), deals, config, pages, t)
    ELSE IF pages[Head(urls)].kind = "raise" THEN [raised |-> TRUE, deals |-> <<>>]
    ELSE ScrapeUrls(Tail(urls), PageDeals(deals, pages[Head(urls)], config, t), config, pages, t)

\* deals[:30]
LimitStore(r) == [raised |-> r.raised, deals |-> Prefix(r.deals, StoreLimit)]

\* MultiStoreScraper._scrape_store
scrape_store(config, pages, t) == LimitStore(ScrapeUrls(config.urls, <<>>, config, pages, t))

\* a loop without the try: the exception of a store loses what was collected
ExtendOrAbort(all_deals, r) == IF r.raised THEN <<>> ELSE all_deals \o r.deals

\* fetch_deals, lines 350-355: the result of _scrape_store is added, an
\* exception of it is caught and logged
ExtendOrCatch(all_deals, r) == IF r.raised THEN all_deals ELSE all_deals \o r.deals

\* one pass of the loop of MultiStoreScraper.fetch_deals: all_deals after
\* store_slug is handled (an unknown slug is skipped)
fetch_deals_step(all_deals, store_slug, pages, t) ==
    IF store_slug \notin StoreKeys THEN all_deals
    ELSE ExtendOrCatch(all_deals, scrape_store(StoreConfigOf(store_slug), pages, t))

\* MultiStoreScraper.__init__: stores or list(STORES.keys())
stores_to_scrape_of(stores) == IF stores = <<>> THEN AllStoreKeys ELSE stores

\* ------------------------------------------------------- backend/main.py
\* the text of datetime.now().isoformat() of the n-th admin request
Stamp(n) == <<"#">> \o <<(<<"0", "1", "2", "3", "4", "5", "6", "7", "8", "9">>)[n + 1]>>

\* main.generate_deal_id
generate_deal_id(merchant, title, stamp) == JoinColon(<<merchant, title, stamp>>)

\* the discount the admin forms compute
AdminDiscount(original_price, sale_price) ==
    IF original_price > 0 THEN DiscountOf(original_price, sale_price) ELSE 0

\* the Deal admin_add_deal builds from the form
AdminNewDeal(title, merchant, original_price, sale_price, category, valid_days, stamp, t) ==
    Deal(generate_deal_id(merchant, title, stamp), title, merchant,
         original_price, sale_price, AdminDiscount(original_price, sale_price),
         category, t, t + valid_days, <<"m", "a", "n", "u", "a", "l">>, APPROVED, t, TRUE)

\* the Deal admin_update_deal builds from the form and the existing record
AdminUpdatedDeal(existing, deal_id, title, merchant, original_price, sale_price, category, valid_days, t) ==
    Deal(deal_id, title, merchant, original_price, sale_price,
         AdminDiscount(original_price, sale_price), category,
         existing.valid_from, t + valid_days, existing.source, APPROVED,
         existing.created_at, TRUE)

\* ------------------------------------------------- scripts/run_scrapers.py
\* CATEGORIES of run_scrapers.py (those of the stores of the model)
RunCategories == {"electronics", "home"}

\* [slug for slug, config in STORES.items() if config.category == category]
StoresOfCategory(category) ==
    LET Keep(k) == StoreConfigOf(k).category = category
    IN  SelectSeq(AllStoreKeys, Keep)

\* [s for s in args if s in STORES]
ValidStores(args) ==
    LET Keep(k) == k \in StoreKeys
    IN  SelectSeq(args, Keep)

\* the selection of main for sys.argv[1:] = args: [run, stores]; run is
\* FALSE when main prints "Unknown stores/category" and returns
Selection(args) ==
    IF args = <<>> THEN [run |-> TRUE, stores |-> <<>>]
    ELSE IF args[1] \in RunCategories
         THEN [run |-> TRUE, stores |-> StoresOfCategory(args[1])]
    ELSE IF ValidStores(args) # <<>>
         THEN [run |-> TRUE, stores |-> ValidStores(args)]
    ELSE [run |-> FALSE, stores |-> <<>>]

\* run_stores after fetch_deals: every deal marked approved
MarkApproved(deals) == [i \in 1..Len(deals) |-> [deals[i] EXCEPT !.status = APPROVED]]

\* a filter that lets one new deal through, the first of the batch
UniqueNewFirst(deals, ids) ==
    LET Keep(d) == d.id \notin ids
    IN  Prefix(SelectSeq(deals, Keep), 1)

\* unique_new = [d for d in new_deals if d.id not in existing_ids]
UniqueNew(deals, ids) ==
    LET Keep(d) == d.id \notin ids
    IN  SelectSeq(deals, Keep)

\* ------------------------------------------------- backend/feed_fetcher.py
\* a child element of a feed item: absent, or present with its text
Absent == [some |-> FALSE, v |-> <<>>]
Text(x) == [some |-> TRUE, v |-> x]

\* Element.findtext(tag, default) on a product element, a record of its
\* child elements
findtext(product, tag, default) == IF product[tag].some THEN product[tag].v ELSE default

\* CATEGORY_MAPPING, in the order of the dict
CATEGORY_MAPPING == <<
    [key |-> <<"e", "l", "e", "k", "t", "r", "o", "n", "i", "c", "a">>, value |-> "electronics"],
    [key |-> <<"e", "l", "e", "c", "t", "r", "o", "n", "i", "c", "s">>, value |-> "electronics"],
    [key |-> <<"c", "o", "m", "p", "u", "t", "e", "r", "s">>, value |-> "electronics"],
    [key |-> <<"t", "e", "l", "e", "f", "o", "o", "n", "s">>, value |-> "electronics"],
    [key |-> <<"p", "h", "o", "n", "e", "s">>, value |-> "electronics"],
    [key |-> <<"a", "u", "d", "i", "o">>, value |-> "electronics"],
    [key |-> <<"v", "i", "d", "e", "o">>, value |-> "electronics"],
    [key |-> <<"t", "v">>, value |-> "electronics"],
    [key |-> <<"g", "a", "m", "i", "n", "g">>, value |-> "electronics"],
    [key |-> <<"g", "a", "m", "e", "s">>, value |-> "electronics"],
    [key |-> <<"m", "o", "d", "e">>, value |-> "fashion"],
    [key |-> <<"f", "a", "s", "h", "i", "o", "n">>, value |-> "fashion"],
    [key |-> <<"k", "l", "e", "d", "i", "n", "g">>, value |-> "fashion"],
    [key |-> <<"c", "l", "o", "t", "h", "i", "n", "g">>, value |-> "fashion"],
    [key |-> <<"s", "c", "h", "o", "e", "n", "e", "n">>, value |-> "fashion"],
    [key |-> <<"s", "h", "o", "e", "s">>, value |-> "fashion"],
    [key |-> <<"a", "c", "c", "e", "s", "s", "o", "i", "r", "e", "s">>, value |-> "fashion"],
    [key |-> <<"w", "o", "n", "e", "n">>, value |-> "home"],
    [key |-> <<"h", "o", "m", "e">>, value |-> "home"],
    [key |-> <<"h", "u", "i", "s">>, value |-> "home"],
    [key |-> <<"t", "u", "i", "n">>, value |-> "home"],
    [key |-> <<"g", "a", "r", "d", "e", "n">>, value |-> "home"],
    [key |-> <<"m", "e", "u", "b", "e", "l", "s">>, value |-> "home"],
    [key |-> <<"f", "u", "r", "n", "i", "t", "u", "r", "e">>, value |-> "home"],
    [key |-> <<"k", "e", "u", "k", "e", "n">>, value |-> "home"],
    [key |-> <<"k", "i", "t", "c", "h", "e", "n">>, value |-> "home"],
    [key |-> <<"s", "p", "o", "r", "t">>, value |-> "sports"],
    [key |-> <<"s", "p", "o", "r", "t", "s">>, value |-> "sports"],
    [key |-> <<"f", "i", "t", "n", "e", "s", "s">>, value |-> "sports"],
    [key |-> <<"o", "u", "t", "d", "o", "o", "r">>, value |-> "sports"],
    [key |-> <<"f", "i", "e", "t", "s", "e", "n">>, value |-> "sports"],
    [key |-> <<"b", "e", "a", "u", "t", "y">>, value |-> "beauty"],
    [key |-> <<"g", "e", "z", "o", "n", "d", "h", "e", "i", "d">>, value |-> "beauty"],
    [key |-> <<"h", "e", "a", "l", "t", "h">>, value |-> "beauty"],
    [key |-> <<"c", "o", "s", "m", "e", "t", "i", "c", "a">>, value |-> "beauty"],
    [key |-> <<"p", "a", "r", "f", "u", "m">>, value |-> "beauty"],
    [key |-> <<"f", "o", "o", "d">>, value |-> "food"],
    [key |-> <<"e", "t", "e", "n">>, value |-> "food"],
    [key |-> <<"d", "r", "i", "n", "k", "e", "n">>, value |-> "food"],
    [key |-> <<"s", "u", "p", "e", "r", "m", "a", "r", "k", "t">>, value |-> "food"],
    [key |-> <<"g", "r", "o", "c", "e", "r", "i", "e", "s">>, value |-> "food"],
    [key |-> <<"r", "e", "i", "z", "e", "n">>, value |-> "travel"],
    [key |-> <<"t", "r", "a", "v", "e", "l">>, value |-> "travel"],
    [key |-> <<"v", "a", "k", "a", "n", "t", "i", "e">>, value |-> "travel"],
    [key |-> <<"h", "o", "t", "e", "l", "s">>, value |-> "travel"],
    [key |-> <<"v", "l", "u", "c", "h", "t", "e", "n">>, value |-> "travel"]
>>

\* the places of the table map_category takes the value from
MappingDirect(normalized) ==
    {i \in 1..Len(CATEGORY_MAPPING) : CATEGORY_MAPPING[i].key = normalized}
MappingPartial(normalized) ==
    {i \in 1..Len(CATEGORY_MAPPING) :
        \/ Contains(normalized, CATEGORY_MAPPING[i].key)
        \/ Contains(CATEGORY_MAPPING[i].key, normalized)}
\* a table lookup that answers the pseudo-category of the listing pages
\* when nothing matches
AnyMapped(hits) ==
    IF hits = {} THEN "all"
    ELSE CATEGORY_MAPPING[CHOOSE i \in hits : \A k \in hits : i <= k].value
FirstMapped(hits) ==
    IF hits = {} THEN "other"
    ELSE CATEGORY_MAPPING[CHOOSE i \in hits : \A k \in hits : i <= k].value
MapNormalized(normalized) ==
    IF MappingDirect(normalized) # {} THEN FirstMapped(MappingDirect(normalized))
    ELSE FirstMapped(MappingPartial(normalized))

\* map_category
map_category(feed_category) ==
    IF feed_category = <<>> THEN "other" ELSE MapNormalized(Strip(Lower(feed_category)))

\* map_category on an argument that may be None: line 88, `not
\* feed_category` holds for None as for ''
MapCategoryOf(arg) == IF ~arg.some THEN "other" ELSE map_category(arg.v)

\* config.CATEGORIES, the slugs in the order of the list
CATEGORIES == <<"all", "electronics", "fashion", "home", "sports", "beauty", "food", "travel", "other">>

\* feed_fetcher.generate_deal_id: the md5 prefix of "merchant:title:source",
\* represented by the text it is computed from
feed_generate_deal_id(merchant, title, source) == JoinColon(<<merchant, title, source>>)

\* the proleptic Gregorian calendar of datetime
IsLeap(y) == (y % 4 = 0 /\ y % 100 # 0) \/ y % 400 = 0
DaysInMonth(y, m) ==
    CASE m = 2 -> IF IsLeap(y) THEN 29 ELSE 28
      [] m \in {4, 6, 9, 11} -> 30
      [] OTHER -> 31
RECURSIVE DaysBeforeMonth(_, _)
DaysBeforeMonth(y, m) ==
    IF m = 1 THEN 0 ELSE DaysBeforeMonth(y, m - 1) + DaysInMonth(y, m - 1)
DaysBeforeYear(y) == (y - 1) * 365 + (y - 1) \div 4 - (y - 1) \div 100 + (y - 1) \div 400
Ordinal(y, m, d) == DaysBeforeYear(y) + DaysBeforeMonth(y, m) + d
\* the day of a date on the clock of the model: day 0 is 2026-01-01
DayOf(y, m, d) == Ordinal(y, m, d) - Ordinal(2026, 1, 1)

\* the place of the first c in s, 0 when there is none
IndexOf(s, c) ==
    IF \E i \in 1..Len(s) : s[i] = c
    THEN CHOOSE i \in 1..Len(s) : s[i] = c /\ \A j \in 1..(i - 1) : s[j] # c
    ELSE 0

RECURSIVE SplitAt(_, _, _)
SplitAt(s, c, i) ==
    IF i = 0 THEN <<s>>
    ELSE <<SubSeq(s, 1, i - 1)>>
         \o SplitAt(SubSeq(s, i + 1, Len(s)), c, IndexOf(SubSeq(s, i + 1, Len(s)), c))
\* str.split(c)
SplitOn(s, c) == SplitAt(s, c, IndexOf(s, c))

\* datetime.strptime(text, '%Y-%m-%d'): Some(day), or None for a ValueError
StrptimeDate(y, m, d) ==
    IF y >= 1 /\ m \in 1..12 /\ d >= 1 /\ d <= DaysInMonth(y, m)
    THEN Some(DayOf(y, m, d)) ELSE None
StrptimeFields(parts) ==
    IF /\ Len(parts) = 3
       /\ Len(parts[1]) = 4 /\ Len(parts[2]) \in 1..2 /\ Len(parts[3]) \in 1..2
       /\ AllDigits(parts[1] \o parts[2] \o parts[3])
    THEN StrptimeDate(DigitsVal(parts[1]), DigitsVal(parts[2]), DigitsVal(parts[3]))
    ELSE None
strptime(text) == StrptimeFields(SplitOn(text, "-"))

\* timedelta(days=30) of a feed item without a date
FeedValidDays == 30

\* lines 157-165 and 229-237: valid_until of a feed item, parsed being the
\* result of strptime on the text of the element
ValidUntilOf(valid_until_str, parsed, t) ==
    IF valid_until_str # <<>> /\ parsed.some THEN parsed.v ELSE t + FeedValidDays

\* float(text.strip()), the decimal comma left in place
FloatOfDotted(text) == ParseFloat(Strip(text))

\* float(text.replace(',', '.').replace('€', '').strip())
FeedFloat(text) == ParseFloat(Strip(Replace(Replace(text, ",", <<".">>), "EUR", <<>>)))

Onbekend == <<"O", "n", "b", "e", "k", "e", "n", "d">>
Daisycon == <<"d", "a", "i", "s", "y", "c", "o", "n">>
Tradetracker == <<"t", "r", "a", "d", "e", "t", "r", "a", "c", "k", "e", "r">>

\* the Deal of a feed item, lines 167-184 and 239-256
FeedDeal(name, merchant, original_price, sale_price, category, valid_until, source, t) ==
    Deal(feed_generate_deal_id(merchant, name, source), name, merchant, original_price, sale_price, DiscountOf(original_price, sale_price), category, t, valid_until, source, APPROVED, t, TRUE)

\* line 153 / 225: the division raises ZeroDivisionError when the original
\* price is 0 and int() raises ValueError on nan, and the item is skipped
FeedDealDivided(name, merchant, original_price, sale_price, category, valid_until, source, t) ==
    IF original_price = 0 \/ IsNaN(original_price) \/ IsNaN(sale_price) THEN None
    ELSE Some(FeedDeal(name, merchant, original_price, sale_price, category, valid_until, source, t))

\* lines 150-151 / 222-223: the original price when it is not above the sale price
FeedOriginal(original_price, sale_price) ==
    IF Le(original_price, sale_price) THEN Times12(sale_price) ELSE original_price

\* lines 146-147 / 219-220: a price text float() rejects skips the item
FeedDealOfPrices(name, merchant, original, sale, category, valid_until, source, t) ==
    IF ~sale.some \/ ~original.some THEN None
    ELSE FeedDealDivided(name, merchant, FeedOriginal(original.v, sale.v), sale.v, category, valid_until, source, t)

DaisyconPriced(product, name, price_str, until_str, t) ==
    FeedDealOfPrices(name, findtext(product, "merchant_name", Onbekend), FeedFloat(findtext(product, "price_old", price_str)), FeedFloat(price_str), map_category(findtext(product, "category", <<>>)), ValidUntilOf(until_str, strptime(until_str), t), Daisycon, t)

\* the body of the loop of parse_daisycon_feed on one product element:
\* Some(deal), or None when the item is skipped
DaisyconDeal(product, t) ==
    IF findtext(product, "name", <<>>) = <<>> THEN None
    ELSE DaisyconPriced(product, findtext(product, "name", <<>>), findtext(product, "price", <<"0">>), findtext(product, "valid_until", <<>>), t)

RECURSIVE DaisyconDeals(_, _)
DaisyconDeals(products, t) ==
    IF products = <<>> THEN <<>>
    ELSE ListOf(DaisyconDeal(Head(products), t)) \o DaisyconDeals(Tail(products), t)

\* parse_daisycon_feed on a document [wellformed, products]: products are
\* the product elements in document order; a document that is not
\* well-formed is an ET.ParseError
parse_daisycon_feed(xml_content, t) ==
    IF xml_content.wellformed THEN DaisyconDeals(xml_content.products, t) ELSE <<>>

\* product.findtext('title', '') or product.findtext('name', '')
TradetrackerName(product) ==
    IF findtext(product, "title", <<>>) # <<>> THEN findtext(product, "title", <<>>)
    ELSE findtext(product, "name", <<>>)

TradetrackerPriced(product, name, price_str, until_str, t) ==
    FeedDealOfPrices(name, findtext(product, "programName", findtext(product, "merchant", Onbekend)), FeedFloat(findtext(product, "fromPrice", findtext(product, "price_old", price_str))), FeedFloat(price_str), map_category(findtext(product, "category", <<>>)), ValidUntilOf(until_str, strptime(Prefix(until_str, 10)), t), Tradetracker, t)

\* the body of the loop of parse_tradetracker_feed on one product element
TradetrackerDeal(product, t) ==
    IF TradetrackerName(product) = <<>> THEN None
    ELSE TradetrackerPriced(product, TradetrackerName(product), findtext(product, "price", <<"0">>), findtext(product, "validTo", findtext(product, "valid_until", <<>>)), t)

RECURSIVE TradetrackerDeals(_, _)
TradetrackerDeals(products, t) ==
    IF products = <<>> THEN <<>>
    ELSE ListOf(TradetrackerDeal(Head(products), t)) \o TradetrackerDeals(Tail(products), t)

\* parse_tradetracker_feed
parse_tradetracker_feed(xml_content, t) ==
    IF xml_content.wellformed THEN TradetrackerDeals(xml_content.products, t) ELSE <<>>

\* ------------------------------------------------------ backend/database.py
\* the row insert_deal writes for a deal: the dates as isoformat text,
\* is_active as 1 or 0
DbRow(deal) ==
    [deal EXCEPT !.valid_from = Some(deal.valid_from),
                 !.valid_until = Some(deal.valid_until),
                 !.created_at = Some(deal.created_at),
                 !.is_active = IF deal.is_active THEN 1 ELSE 0]

\* insert_deal: INSERT OR REPLACE on the primary key id; db is the set of
\* rows of the deals table
insert_deal(db, deal) == {r \in db : r.id # deal.id} \cup {DbRow(deal)}

\* deal_exists
deal_exists(db, deal_id) == \E r \in db : r.id = deal_id

\* approve_deal and reject_deal: UPDATE deals SET status = ? WHERE id = ?
approve_deal(db, deal_id) ==
    {IF r.id = deal_id THEN [r EXCEPT !.status = APPROVED] ELSE r : r \in db}
reject_deal(db, deal_id) ==
    {IF r.id = deal_id THEN [r EXCEPT !.status = REJECTED] ELSE r : r \in db}

\* the loop of BaseScraper.run: a deal is inserted when no row has its id
RECURSIVE run(_, _)
run(db, deals) ==
    IF deals = <<>> THEN db
    ELSE IF deal_exists(db, Head(deals).id) THEN run(db, Tail(deals))
    ELSE run(insert_deal(db, Head(deals)), Tail(deals))

\* update_deals_from_feeds, lines 339-344: the parser of a source
ParseBySource(source, content, t) ==
    IF source = "tradetracker" THEN parse_tradetracker_feed(content, t)
    ELSE parse_daisycon_feed(content, t)

\* the deals update_deals_from_feeds parses, in the order it inserts them;
\* feeds is feed_urls in dict order, each entry with what fetch_feed gives
\* for its url (from the cache file or the network): [source, fetched,
\* content], fetched FALSE when fetch_feed returns None or an empty text
RECURSIVE FeedsParsed(_, _)
FeedsParsed(feeds, t) ==
    IF feeds = <<>> THEN <<>>
    ELSE (IF Head(feeds).fetched
          THEN ParseBySource(Head(feeds).source, Head(feeds).content, t)
          ELSE <<>>)
         \o FeedsParsed(Tail(feeds), t)

\* the loop "for deal in deals: insert_deal(deal)"
RECURSIVE InsertAll(_, _)
InsertAll(db, deals) ==
    IF deals = <<>> THEN db ELSE InsertAll(insert_deal(db, Head(deals)), Tail(deals))

\* update_deals_from_feeds: the table afterwards
update_deals_from_feeds(db, feeds, t) == InsertAll(db, FeedsParsed(feeds, t))

\* ---------------------------------------------------- scrapers/pepper.py
Letters == {"a", "b", "c", "d", "e", "f", "g", "h", "i", "j", "k", "l", "m", "n", "o", "p", "q", "r", "s", "t", "u", "v", "w", "x", "y", "z"}
\* [\d.,]
AmountChars == Digits \cup {".", ","}
\* [A-Za-z0-9.]
NameChars == Letters \cup {UpperChar(c) : c \in Letters} \cup Digits \cup {"."}

\* the place after the blanks of s that start at i (\s*)
RECURSIVE SkipBlanks(_, _)
SkipBlanks(s, i) == IF i <= Len(s) /\ s[i] = " " THEN SkipBlanks(s, i + 1) ELSE i

\* the place after the longest run of characters of cls that starts at i
RECURSIVE RunEnd(_, _, _)
RunEnd(s, i, cls) == IF i <= Len(s) /\ s[i] \in cls THEN RunEnd(s, i + 1, cls) ELSE i

\* the group of ([\d.,]+) at i, <<>> when it does not match there
AmountRun(s, i) == SubSeq(s, i, RunEnd(s, i, AmountChars) - 1)

\* an optional euro sign at i
SkipEuro(s, i) == IF i <= Len(s) /\ s[i] = "EUR" THEN i + 1 ELSE i

\* the group of \s*€?\s*([\d.,]+) matched at i, <<>> when it does not match
AmountAt(s, i) == AmountRun(s, SkipBlanks(s, SkipEuro(s, SkipBlanks(s, i))))

\* word matches at i, whatever the case (re.IGNORECASE)
WordAt(s, i, word) ==
    i + Len(word) - 1 <= Len(s) /\ Lower(SubSeq(s, i, i + Len(word) - 1)) = word

\* the group of (?:w1|w2|...)\s*€?\s*([\d.,]+) matched at i, the words
\* tried in order; <<>> when none matches
RECURSIVE KeywordAmount(_, _, _)
AmountOrNext(group, s, i, words) ==
    IF group # <<>> THEN group ELSE KeywordAmount(s, i, words)
KeywordAmount(s, i, words) ==
    IF words = <<>> THEN <<>>
    ELSE IF WordAt(s, i, Head(words))
         THEN AmountOrNext(AmountAt(s, i + Len(Head(words))), s, i, Tail(words))
    ELSE KeywordAmount(s, i, Tail(words))

\* re.search of that pattern from place i on: the group of the leftmost
\* match, <<>> when there is none
RECURSIVE SearchAmount(_, _, _)
AmountOrOnward(group, s, i, words) ==
    IF group # <<>> THEN group ELSE SearchAmount(s, i + 1, words)
SearchAmount(s, i, words) ==
    IF i > Len(s) THEN <<>> ELSE AmountOrOnward(KeywordAmount(s, i, words), s, i, words)

\* voor
SaleWords == <<<<"v", "o", "o", "r">>>>
\* a pattern without "was"
OriginalWordsDutch == <<<<"i", ".", "p", ".", "v", ".">>, <<"i", "p", "v">>, <<"v", "a", "n">>>>
\* was|i\.?p\.?v\.?|van, each optional point tried present first
OriginalWords == <<<<"w", "a", "s">>, <<"i", ".", "p", ".", "v", ".">>, <<"i", ".", "p", ".", "v">>, <<"i", ".", "p", "v", ".">>, <<"i", ".", "p", "v">>, <<"i", "p", ".", "v", ".">>, <<"i", "p", ".", "v">>, <<"i", "p", "v", ".">>, <<"i", "p", "v">>, <<"v", "a", "n">>>>

\* parse_price on the group of a match, None when there is no match
PriceOfGroup(group) == IF group = <<>> THEN None ELSE parse_price(group)

\* PepperScraper._extract_prices on text = "title description"
extract_prices(text) ==
    [original_price |-> PriceOfGroup(SearchAmount(text, 1, OriginalWords)),
     sale_price |-> PriceOfGroup(SearchAmount(text, 1, SaleWords))]

\* re.findall(r'€\s*([\d.,]+)', text) from place i on
RECURSIVE EuroAmounts(_, _)
EuroAmountFrom(s, i, j, group) ==
    IF group # <<>> THEN <<group>> \o EuroAmounts(s, j + Len(group)) ELSE EuroAmounts(s, i + 1)
EuroAmounts(s, i) ==
    IF i > Len(s) THEN <<>>
    ELSE IF s[i] = "EUR"
         THEN EuroAmountFrom(s, i, SkipBlanks(s, i + 1), AmountRun(s, SkipBlanks(s, i + 1)))
    ELSE EuroAmounts(s, i + 1)

\* [p for p in prices if p and p > 0] of the parsed matches, as a set
PositivePrices(groups) ==
    {parse_price(groups[i]).v : i \in {k \in 1..Len(groups) : Truthy(parse_price(groups[k])) /\ parse_price(groups[k]).v > 0}}

MinOf(prices) ==
    IF prices = {} THEN None ELSE Some(CHOOSE p \in prices : \A q \in prices : p <= q)

\* PepperScraper._extract_any_price
extract_any_price(text) == MinOf(PositivePrices(EuroAmounts(text, 1)))

\* known_merchants of _extract_merchant, in list order
known_merchants == <<
    [keyword |-> <<"b", "o", "l", ".", "c", "o", "m">>, name |-> <<"B", "o", "l", ".", "c", "o", "m">>],
    [keyword |-> <<"c", "o", "o", "l", "b", "l", "u", "e">>, name |-> <<"C", "o", "o", "l", "b", "l", "u", "e">>],
    [keyword |-> <<"m", "e", "d", "i", "a", "m", "a", "r", "k", "t">>, name |-> <<"M", "e", "d", "i", "a", "M", "a", "r", "k", "t">>],
    [keyword |-> <<"a", "m", "a", "z", "o", "n">>, name |-> <<"A", "m", "a", "z", "o", "n", ".", "n", "l">>],
    [keyword |-> <<"z", "a", "l", "a", "n", "d", "o">>, name |-> <<"Z", "a", "l", "a", "n", "d", "o">>],
    [keyword |-> <<"w", "e", "h", "k", "a", "m", "p">>, name |-> <<"W", "e", "h", "k", "a", "m", "p">>],
    [keyword |-> <<"k", "r", "u", "i", "d", "v", "a", "t">>, name |-> <<"K", "r", "u", "i", "d", "v", "a", "t">>],
    [keyword |-> <<"h", "e", "m", "a">>, name |-> <<"H", "E", "M", "A">>],
    [keyword |-> <<"i", "k", "e", "a">>, name |-> <<"I", "K", "E", "A">>],
    [keyword |-> <<"a", "l", "b", "e", "r", "t", " ", "h", "e", "i", "j", "n">>, name |-> <<"A", "l", "b", "e", "r", "t", " ", "H", "e", "i", "j", "n">>],
    [keyword |-> <<"a", "h", ".", "n", "l">>, name |-> <<"A", "l", "b", "e", "r", "t", " ", "H", "e", "i", "j", "n">>],
    [keyword |-> <<"j", "u", "m", "b", "o">>, name |-> <<"J", "u", "m", "b", "o">>],
    [keyword |-> <<"l", "i", "d", "l">>, name |-> <<"L", "i", "d", "l">>],
    [keyword |-> <<"a", "c", "t", "i", "o", "n">>, name |-> <<"A", "c", "t", "i", "o", "n">>],
    [keyword |-> <<"d", "e", "c", "a", "t", "h", "l", "o", "n">>, name |-> <<"D", "e", "c", "a", "t", "h", "l", "o", "n">>],
    [keyword |-> <<"d", "o", "u", "g", "l", "a", "s">>, name |-> <<"D", "o", "u", "g", "l", "a", "s">>],
    [keyword |-> <<"b", "o", "o", "k", "i", "n", "g">>, name |-> <<"B", "o", "o", "k", "i", "n", "g", ".", "c", "o", "m">>]
>>

KnownHits(text) ==
    {i \in 1..Len(known_merchants) : Contains(text, known_merchants[i].keyword)}

\* the group of (?:@|bij|via)\s+([A-Za-z0-9.]+) matched at i with one of
\* the words, <<>> when it does not match
NameFrom(s, i, j) == IF j > i THEN SubSeq(s, j, RunEnd(s, j, NameChars) - 1) ELSE <<>>
NameAfter(s, i) == NameFrom(s, i, SkipBlanks(s, i))
RECURSIVE KeywordName(_, _, _)
NameOrNext(group, s, i, words) ==
    IF group # <<>> THEN group ELSE KeywordName(s, i, words)
KeywordName(s, i, words) ==
    IF words = <<>> THEN <<>>
    ELSE IF WordAt(s, i, Head(words))
         THEN NameOrNext(NameAfter(s, i + Len(Head(words))), s, i, Tail(words))
    ELSE KeywordName(s, i, Tail(words))
RECURSIVE SearchName(_, _, _)
NameOrOnward(group, s, i, words) ==
    IF group # <<>> THEN group ELSE SearchName(s, i + 1, words)
SearchName(s, i, words) ==
    IF i > Len(s) THEN <<>> ELSE NameOrOnward(KeywordName(s, i, words), s, i, words)

MerchantWords == <<<<"@">>, <<"b", "i", "j">>, <<"v", "i", "a">>>>
Diverse == <<"D", "i", "v", "e", "r", "s", "e">>

MerchantOrDiverse(group) == IF group # <<>> THEN group ELSE Diverse
MerchantOfHits(hits, title) ==
    IF hits # {} THEN known_merchants[CHOOSE i \in hits : \A k \in hits : i <= k].name
    ELSE MerchantOrDiverse(SearchName(title, 1, MerchantWords))

\* PepperScraper._extract_merchant
extract_merchant(title, description) ==
    MerchantOfHits(KnownHits(Lower(title \o <<" ">> \o description)), title)

\* re.sub(r'\s+', ' ', title)
RECURSIVE CollapseBlanks(_)
CollapseBlanks(s) ==
    IF s = <<>> THEN <<>>
    ELSE IF Head(s) = " " THEN <<" ">> \o CollapseBlanks(LStrip(s))
    ELSE <<Head(s)>> \o CollapseBlanks(Tail(s))

\* \s*@\s*[A-Za-z0-9.]+\s*$ matches at i
AtNameToEnd(s, k) == RunEnd(s, k, NameChars) > k /\ SkipBlanks(s, RunEnd(s, k, NameChars)) = Len(s) + 1
AtSignAt(s, j) == j <= Len(s) /\ s[j] = "@" /\ AtNameToEnd(s, SkipBlanks(s, j + 1))
AtSuffixAt(s, i) == AtSignAt(s, SkipBlanks(s, i))

\* re.sub of that pattern by '': the text before its leftmost match
WithoutAtSuffix(s) ==
    IF \E i \in 1..Len(s) : AtSuffixAt(s, i)
    THEN SubSeq(s, 1, (CHOOSE i \in 1..Len(s) : AtSuffixAt(s, i) /\ \A j \in 1..(i - 1) : ~AtSuffixAt(s, j)) - 1)
    ELSE s

\* PepperScraper._clean_title
clean_title(title) == WithoutAtSuffix(Strip(CollapseBlanks(title)))

\* timedelta(days=7) of a syndicated deal
PepperValidDays == 7
Pepper == <<"p", "e", "p", "p", "e", "r">>

\* _parse_entry, lines 78-100: the prices and the discount of an entry, from
\* what _extract_prices found and what _extract_any_price finds
PricesFound(original_price, sale_price, discount) ==
    [original_price |-> original_price, sale_price |-> sale_price, discount |-> discount]
PricesFromAny(any) ==
    IF Truthy(any) THEN PricesFound(Times125(any.v), any.v, 20) ELSE PricesFound(0, 0, 100)
PepperPrices(original_price, sale_price, any) ==
    IF Truthy(original_price) /\ Truthy(sale_price) /\ original_price.v > sale_price.v
    THEN PricesFound(original_price.v, sale_price.v, DiscountOf(original_price.v, sale_price.v))
    ELSE IF Truthy(sale_price) THEN PricesFound(Times125(sale_price.v), sale_price.v, 20)
    ELSE PricesFromAny(any)

\* _parse_entry, lines 117-138: the Deal of an entry
PepperDeal(entry, prices, created_at, t) ==
    Deal(generate_id(<<Pepper, IF entry.link # <<>> THEN entry.link ELSE entry.title>>), clean_title(entry.title), extract_merchant(entry.title, entry.summary), prices.original_price, prices.sale_price, prices.discount, detect_category(entry.title, entry.summary), created_at, created_at + PepperValidDays, Pepper, PENDING, t, TRUE)

PepperPriced(entry, found, t) ==
    PepperDeal(entry, PepperPrices(found.original_price, found.sale_price, extract_any_price(entry.title \o <<" ">> \o entry.summary)), IF entry.published.some THEN entry.published.v ELSE t, t)

\* PepperScraper._parse_entry on entry = [title, summary, link, published]:
\* Some(deal), or None for an entry without a title
parse_entry(entry, t) ==
    IF entry.title = <<>> THEN None
    ELSE Some(PepperPriced(entry, extract_prices(entry.title \o <<" ">> \o entry.summary), t))

\* PepperScraper._parse_feed: the deals of the entries of a feed
RECURSIVE parse_feed(_, _)
parse_feed(entries, t) ==
    IF entries = <<>> THEN <<>>
    ELSE ListOf(parse_entry(Head(entries), t)) \o parse_feed(Tail(entries), t)


\* ---------------------------------------------------- feed_fetcher.fetch_feed
\* Path.write_text in text mode: "\n" becomes os.linesep (POSIX build)
LineSep == <<"\n">>
WriteText(content) == Replace(content, "\n", LineSep)

\* Path.read_text in text mode, universal newlines: "\r\n" and "\r" are
\* read as "\n"
RECURSIVE ReadText(_)
ReadText(data) ==
    IF data = <<>> THEN <<>>
    ELSE IF Head(data) = "\r"
         THEN <<"\n">> \o ReadText(IF Len(data) > 1 /\ data[2] = "\n" THEN Tail(Tail(data)) ELSE Tail(data))
    ELSE <<Head(data)>> \o ReadText(Tail(data))

\* a cache file FEEDS_DIR/<md5(url)>.xml: kind is "absent", "ok",
\* "unreadable" (read_text raises PermissionError) or "undecodable"
\* (read_text raises UnicodeDecodeError); mtime is st_mtime in seconds
NoCacheFile == [kind |-> "absent", mtime |-> 0, data |-> <<>>]
CacheFile(kind, mtime, data) == [kind |-> kind, mtime |-> mtime, data |-> data]

HourSeconds == 3600

\* what a call of fetch_feed gives: raised (an exception leaves the
\* function), ret (the return value, Absent for None), requests (calls of
\* urlopen) and the cache file afterwards
Returned(ret, requests, cf) == [raised |-> FALSE, ret |-> ret, requests |-> requests, file |-> cf]
Raised(requests, cf) == [raised |-> TRUE, ret |-> Absent, requests |-> requests, file |-> cf]

\* lines 286-289: cache_file.exists(), the age test
CacheFresh(cf, t, cache_hours) ==
    cf.kind # "absent" /\ t - cf.mtime < cache_hours * HourSeconds

\* line 289: return cache_file.read_text(encoding='utf-8'), outside the try
ReadCache(cf) ==
    IF cf.kind = "ok" THEN Returned(Text(ReadText(cf.data)), 0, cf)
    ELSE Raised(0, cf)

\* lines 300-303 inside the try, with the except clauses of lines 305-310:
\* wr is what cache_file.write_text does, "ok", "refused" (open raises
\* OSError, the file stays as it was) or "cut" (the write raises OSError
\* after the file was truncated, and stops inside a character)
SaveAndReturn(cf, t, content, wr) ==
    IF wr = "ok" THEN Returned(Text(content), 1, CacheFile("ok", t, WriteText(content)))
    ELSE IF wr = "refused" THEN Returned(Absent, 1, cf)
    ELSE Returned(Absent, 1, CacheFile("undecodable", t, <<>>))

\* lines 292-310: net is what urlopen and response.read().decode give,
\* kind "ok" with the content, or "timeout", "dns", "http" (URLError) or
\* "decode" (UnicodeDecodeError); every exception of the block gives None
FetchFresh(cf, t, net, wr) ==
    IF net.kind = "ok" THEN SaveAndReturn(cf, t, net.content, wr)
    ELSE Returned(Absent, 1, cf)

\* fetch_feed(url, cache_hours) at time t, cf the cache file of the url
fetch_feed(cf, t, cache_hours, net, wr) ==
    IF CacheFresh(cf, t, cache_hours) THEN ReadCache(cf)
    ELSE FetchFresh(cf, t, net, wr)

\* ------------------------------------------- deals_store.py, the listings
\* the test "d.is_active and d.valid_until >= now"
ActiveAt(d, t) == d.is_active /\ d.valid_until >= t

\* the test "category and category != 'all'" on an Optional[str]
CategoryGiven(category) == category.some /\ category.v # "" /\ category.v # "all"

\* lines 52-58 and 88-92: the deals loaded, active, unexpired and of the
\* category asked for
Listed(f, category, t) ==
    LET InList(d) == ActiveAt(d, t) /\ (CategoryGiven(category) => d.category = category.v)
    IN  SelectSeq(load_deals(f, t), InList)

\* the fields get_all_deals sorts by
SortFields == {"created_at", "discount_percentage", "valid_until", "sale_price"}
SortKey(d, sort_by) ==
    CASE sort_by = "created_at" -> d.created_at
      [] sort_by = "discount_percentage" -> d.discount_percentage
      [] sort_by = "valid_until" -> d.valid_until
      [] OTHER -> d.sale_price

\* list.sort(key=..., reverse=reverse): a stable sort, equal keys keep the
\* order they had
SortedBy(deals, sort_by, reverse) ==
    LET n == Len(deals)
        Before(j, i) ==
            \/ IF reverse THEN SortKey(deals[j], sort_by) > SortKey(deals[i], sort_by)
                          ELSE SortKey(deals[j], sort_by) < SortKey(deals[i], sort_by)
            \/ SortKey(deals[j], sort_by) = SortKey(deals[i], sort_by) /\ j < i
        Place(i) == Cardinality({j \in 1..n : Before(j, i)}) + 1
    IN  [p \in 1..n |-> deals[CHOOSE i \in 1..n : Place(i) = p]]

\* deals[offset:offset + limit] for offset >= 0 and limit >= 0
Slice(deals, offset, limit) ==
    SubSeq(deals, offset + 1, IF offset + limit < Len(deals) THEN offset + limit ELSE Len(deals))

\* get_all_deals of deals_store.py
get_all_deals(f, category, limit, offset, sort_by, sort_order, t) ==
    LET deals == Listed(f, category, t)
    IN  Slice(IF sort_by \in SortFields THEN SortedBy(deals, sort_by, Lower(sort_order) = <<"d", "e", "s", "c">>) ELSE deals, offset, limit)

\* count_deals
count_deals(f, category, t) == Len(Listed(f, category, t))

\* search_deals
search_deals(f, query, limit, t) ==
    LET Found(d) == ActiveAt(d, t) /\ (Contains(Lower(d.title), Lower(query)) \/ Contains(Lower(d.merchant), Lower(query)))
    IN  Slice(SortedBy(SelectSeq(load_deals(f, t), Found), "discount_percentage", TRUE), 0, limit)
\* --------------------------------------------------------- the model's inputs
TitleTv == <<"S", "o", "n", "y", " ", "t", "v">>
TitleLamp == <<"L", "a", "m", "p", "j", "e">>
TitleEdited == <<"E", "d", "i", "t", "e", "d">>
ShopHand == <<"S", "h", "o", "p">>

Price(euros) == euros * Scale

\* Product annotations the pages of the pipeline carry
ProductTv == [name |-> TitleTv, price |-> <<"1", "0", ".", "0", "0">>, high |-> <<>>]
ProductTvB == [name |-> TitleTv, price |-> <<"1", "1">>, high |-> <<"2", "2", ",", "0", "0">>]
ProductLamp == [name |-> TitleLamp, price |-> <<"8", ".", "0", "0">>, high |-> <<"1", "2", ".", "0", "0">>]
PipelineProducts == {ProductTv, ProductTvB}

\* a product card matched by the first pattern of _parse_html_generic
CardTv == <<<<"h", "t", "t", "p", ":", "/", "/", "i", "/", "1", ".", "p", "n", "g">>, TitleTv, <<"9", ",", "5", "0">>>>

RECURSIVE SeqsUpTo(_, _)
\* the sequences over S of length 1..n
SeqsUpTo(S, n) ==
    IF n = 0 THEN {}
    ELSE LET shorter == SeqsUpTo(S, n - 1)
         IN  {<<x>> : x \in S} \cup shorter \cup {Append(s, x) : s \in shorter, x \in S}

\* what a fetch of the bol page and of the ikea page can give
BolPages ==
    {BadPage, HtmlPage(<<>>, <<CardTv>>, <<>>)}
    \cup {HtmlPage(j, <<>>, <<>>) : j \in SeqsUpTo(PipelineProducts, MaxItems)}
LampPage == HtmlPage(<<ProductLamp>>, <<>>, <<>>)
TvPage == HtmlPage(<<ProductTv>>, <<>>, <<>>)
WebOf(bol, ikea) ==
    [u \in {STORES[1].urls[1], STORES[2].urls[1]} |-> IF u = STORES[1].urls[1] THEN bol ELSE ikea]
FullWeb == WebOf(TvPage, LampPage)
Webs == {WebOf(b, LampPage) : b \in BolPages} \cup {WebOf(TvPage, k) : k \in {NoPage, BadPage}}

\* sys.argv[1:] of a run
Argvs == {<<>>, <<"home">>, <<"ikea", "nope", "bol">>, <<"nope">>}

\* records found in data/deals.json before the first run of the behaviour:
\* an earlier scrape of the Sony tv at another price, and a hand-made record
SeedScraped(until) ==
    Deal(generate_id(<<STORES[1].slug, TitleTv>>), TitleTv, STORES[1].name,
         Price(15), Price(9), 40, "electronics", until - StoreValidDays, until,
         STORES[1].slug, APPROVED, until - StoreValidDays, TRUE)
SeedHand(until) ==
    Deal(generate_deal_id(ShopHand, TitleEdited, Stamp(9)), TitleEdited, ShopHand,
         Price(5), Price(4), 20, "other", until - 1, until,
         <<"m", "a", "n", "u", "a", "l">>, PENDING, until - 1, FALSE)
SeededFile == save_deals(<<SeedHand(-(GraceDays - 1)), SeedScraped(-GraceDays)>>)
InitFiles == {<<>>, SeededFile}

\* the store, the pages and the job's arguments a behaviour starts from
Scenarios ==
    {[file |-> f, web |-> w, argv |-> <<>>] : f \in InitFiles, w \in Webs}
    \cup {[file |-> SeededFile, web |-> FullWeb, argv |-> a] : a \in Argvs}

\* batches handed to add_deals: scraped deals of day t, with clashes of ids
\* inside the batch and with the seed record
BatchDeals(t) ==
    {create_deal_from_data(ProductTv, STORES[1], t).v, create_deal_from_data(ProductLamp, STORES[2], t).v}
AddBatches(t) == SeqsUpTo(BatchDeals(t), 2)

\* feed items: a kettle of one shop, in the element names of each network
TitleKettle == <<"K", "e", "t", "t", "l", "e">>
ShopFeed == <<"F", "e", "e", "d", "s", "h", "o", "p">>
NoElements ==
    [name |-> Absent, title |-> Absent, price |-> Absent, price_old |-> Absent,
     fromPrice |-> Absent, valid_until |-> Absent, validTo |-> Absent,
     merchant_name |-> Absent, programName |-> Absent, merchant |-> Absent,
     category |-> Absent]
DaisyconItem(price, price_old, until) ==
    [NoElements EXCEPT !.name = Text(TitleKettle), !.price = price, !.price_old = price_old,
                       !.valid_until = until, !.merchant_name = Text(ShopFeed),
                       !.category = Text(<<"A", "u", "d", "i", "o">>)]
TradetrackerItem(price, price_old, until) ==
    [NoElements EXCEPT !.title = Text(TitleKettle), !.price = price, !.fromPrice = price_old,
                       !.validTo = until, !.programName = Text(ShopFeed)]

\* price, price_old and valid_until texts of a feed item
FeedPrices == {Absent, Text(<<"2", "5">>), Text(<<"-", "1", "0">>), Text(<<"0">>), Text(<<"1", "2", ",", "5", "0">>), Text(<<"EUR", " ", "8">>), Text(<<"a", "b", "c">>), Text(<<"n", "a", "n">>)}
FeedOldPrices == {Absent, Text(<<"5", "0">>), Text(<<"5">>), Text(<<"2", "5">>), Text(<<"N", "a", "N">>)}
FeedDates == {Absent, Text(<<"2", "0", "2", "5", "-", "1", "2", "-", "2", "5">>), Text(<<"2", "0", "2", "6", "-", "0", "1", "-", "0", "1">>), Text(<<"2", "0", "2", "6", "-", "0", "1", "-", "0", "3">>), Text(<<"s", "o", "o", "n">>), Text(<<"2", "0", "2", "6", "-", "0", "1", "-", "0", "3", "T", "1", "0", ":", "0", "0">>)}
DaisyconItems == {DaisyconItem(p, o, u) : p \in FeedPrices, o \in FeedOldPrices, u \in FeedDates}
TradetrackerItems == {TradetrackerItem(p, o, u) : p \in FeedPrices, o \in FeedOldPrices, u \in FeedDates}

\* feed documents and what fetch_feed gives for the configured feeds
Doc(products) == [wellformed |-> TRUE, products |-> products]
BadDoc == [wellformed |-> FALSE, products |-> <<>>]
Feed(source, content) == [source |-> source, fetched |-> TRUE, content |-> content]
NoFeed(source) == [source |-> source, fetched |-> FALSE, content |-> BadDoc]
KettleA == DaisyconItem(Text(<<"2", "5">>), Text(<<"5", "0">>), Absent)
KettleB == DaisyconItem(Text(<<"2", "0">>), Text(<<"5", "0">>), Text(<<"2", "0", "2", "6", "-", "0", "1", "-", "0", "3">>))
KettleT == TradetrackerItem(Text(<<"2", "5">>), Text(<<"5", "0">>), Absent)
FeedSets ==
    {<<Feed("daisycon", Doc(<<KettleA>>))>>,
     <<Feed("daisycon", Doc(<<KettleB>>))>>,
     <<Feed("daisycon", BadDoc)>>,
     <<NoFeed("daisycon"), Feed("tradetracker", Doc(<<KettleT>>))>>,
     <<Feed("partner", Doc(<<KettleA, KettleB>>))>>}

\* entries of the syndication feeds
PepperTitles ==
    {<<"K", "o", "f", "f", "i", "e", " ", "v", "o", "o", "r", " ", "EUR", "5", " ", "w", "a", "s", " ", "EUR", "1", "0", " ", "@", " ", "S", "h", "o", "p">>, <<"K", "o", "f", "f", "i", "e", " ", "v", "o", "o", "r", " ", "1", "0", " ", "w", "a", "s", " ", "5">>, <<"K", "o", "f", "f", "i", "e", " ", "v", "o", "o", "r", " ", "EUR", "5">>,
     <<"K", "o", "f", "f", "i", "e", " ", "EUR", "7", " ", "o", "f", " ", "EUR", "3">>, <<"G", "r", "a", "t", "i", "s", " ", "k", "o", "f", "f", "i", "e">>, <<"K", "o", "f", "f", "i", "e", " ", "w", "a", "s", " ", "EUR", "1", "0">>, <<"K", "o", "f", "f", "i", "e", " ", "v", "o", "o", "r", " ", "0", " ", "v", "a", "n", " ", "9">>, <<>>}
Entry(title, published) ==
    [title |-> title, summary |-> <<>>, link |-> <<>>, published |-> published]
PepperEntries == {Entry(title, published) : title \in PepperTitles, published \in {None, Some(-10)}}
EntryA == Entry(<<"K", "o", "f", "f", "i", "e", " ", "v", "o", "o", "r", " ", "EUR", "5", " ", "w", "a", "s", " ", "EUR", "1", "0", " ", "@", " ", "S", "h", "o", "p">>, None)
EntryB == Entry(<<"K", "o", "f", "f", "i", "e", " ", "EUR", "7", " ", "o", "f", " ", "EUR", "3">>, None)
PepperFeeds == {<<EntryB, EntryA, EntryB>>}

\* Product annotations handed to _create_deal_from_data
JsonProducts ==
    {[name |-> n, price |-> p, high |-> h] :
        n \in {TitleTv, <<"T", "v">>},
        p \in {<<"1", "0", ".", "0", "0">>, <<"0">>, <<"-", "5">>, <<"a", "b", "c">>, <<"1", ".", "2", "3", "4", ",", "5", "6">>, <<"0", ".", "0", "0", "4">>, <<"n", "a", "n">>, <<>>},
        h \in {<<>>, <<"1", "2", ".", "0", "0">>, <<"8">>, <<"1", "0", ".", "2", "0">>, <<"0">>, <<"n", "a", "n">>}}

\* matches of the patterns of _parse_html_generic
CardCheap == <<<<"/", "i", "/", "2", ".", "p", "n", "g">>, TitleLamp, <<"0", ",", "5", "0">>>>
CardPlain == <<TitleLamp, <<"EUR", " ", "3", ",", "0", "0">>, <<"/", "i", "/", "3", ".", "p", "n", "g">>>>
CardKnown == <<TitleLamp, <<"3", ",", "0", "0">>, <<"/", "i", "/", "3", ".", "p", "n", "g">>>>
CardNan == <<TitleLamp, <<"n", "a", "n">>, <<"/", "i", "/", "3", ".", "p", "n", "g">>>>
HtmlCardSets ==
    {<<m1, m2>> : m1 \in {<<>>, <<CardTv>>, <<CardCheap, CardTv>>}, m2 \in {<<>>, <<CardPlain>>, <<CardKnown>>, <<CardNan, CardKnown>>}}




\* fetch_feed: the feed urls of scripts/update_feeds.py, what the network
\* gives, what the cache write does, and the cache windows asked for
FeedUrls == {"daisycon.example/feed", "tradetracker.example/feed"}
FeedContents == {<<"<", "a", "/", ">">>, <<"<", "a", ">", "\r", "\n", "<", "/", "a", ">">>}
NetOutcomes ==
    {[kind |-> "ok", content |-> c] : c \in FeedContents}
        \cup {[kind |-> k, content |-> <<>>] : k \in {"timeout", "dns", "http", "decode"}}
WriteOutcomes == {"ok", "refused", "cut"}
CacheHours == {1, 2}

\* texts handed to the classifiers: None, every text of at most MaxLen
\* characters over a small alphabet (blank, an upper-case letter, the
\* letters of the keywords "tv" and "ah"), and category texts of feeds
CategoryAlphabet == {" ", "T", "v", "a", "h"}
CategoryTexts ==
    {<<>>} \cup SeqsUpTo(CategoryAlphabet, MaxLen)
        \cup {<<"T", "u", "i", "n", " ", "&", " ", "W", "o", "n", "e", "n">>, <<"z", "z", "z">>, <<"a", "l", "l">>, <<"A", "l", "l", "e">>, <<"H", "o", "t", "e", "l", "s">>}
CategoryArgs == {Absent} \cup {Text(c) : c \in CategoryTexts}

\* the product of the affiliate-feed example: price 29,99, price_old 49,99,
\* merchant_name Acme, with the names, category texts and dates of the model
TitleX == <<"P", "r", "o", "d", "u", "c", "t", " ", "X">>
AcmeItems ==
    {[NoElements EXCEPT !.name = Text(n), !.price = Text(<<"2", "9", ",", "9", "9">>), !.price_old = Text(<<"4", "9", ",", "9", "9">>),
                        !.merchant_name = Text(<<"A", "c", "m", "e">>), !.category = c, !.valid_until = u] :
        n \in {TitleKettle, TitleX}, c \in {Absent, Text(<<"A", "u", "d", "i", "o">>), Text(<<"T", "u", "i", "n", " ", "&", " ", "W", "o", "n", "e", "n">>), Text(<<"z", "z", "z">>)},
        u \in FeedDates}

\* the entry of the syndication example, with the summaries, links and
\* publication dates of the model
TitleBol == <<"P", "r", "o", "d", "u", "c", "t", " ", "X", " ", "v", "o", "o", "r", " ", "EUR", "1", "9", ",", "9", "9", " ", "(", "w", "a", "s", " ", "EUR", "3", "9", ",", "9", "9", ")", " ", "@", " ", "B", "o", "l", ".", "c", "o", "m">>
BolEntries ==
    {[title |-> TitleBol, summary |-> s, link |-> l, published |-> p] :
        s \in {<<>>, <<"n", "u", " ", "b", "i", "j", " ", "C", "o", "o", "l", "b", "l", "u", "e", " ", "v", "o", "o", "r", " ", "EUR", "5", " ", "v", "a", "n", " ", "EUR", "9">>}, l \in {<<>>, <<"p", "e", "p", "p", "e", "r", ".", "e", "x", "a", "m", "p", "l", "e", "/", "1">>},
        p \in {None, Some(-10)}}

\* documents of n items each of which gives a deal, one per source
ManyOf(item, n) == [i \in 1..n |-> item]
ManyCounts == {StoreLimit, StoreLimit + 1}

\* two executions of BaseScraper.run; each finds the entry of one link,
\* with the title as it stood when the feed was read, and an entry of its
\* own before or after it
Procs == {1, 2}
LinkShared == <<"p", "e", "p", "p", "e", "r", ".", "e", "x", "a", "m", "p", "l", "e", "/", "1">>
SharedEntry(p) ==
    [title |-> IF p = 1 THEN <<"K", "o", "f", "f", "i", "e", " ", "v", "o", "o", "r", " ", "EUR", "5", " ", "w", "a", "s", " ", "EUR", "1", "0", " ", "@", " ", "S", "h", "o", "p">> ELSE <<"K", "o", "f", "f", "i", "e", " ", "v", "o", "o", "r", " ", "EUR", "4", " ", "w", "a", "s", " ", "EUR", "1", "0", " ", "@", " ", "S", "h", "o", "p">>,
     summary |-> <<>>, link |-> LinkShared, published |-> None]
OwnEntry(p) ==
    [title |-> <<"K", "o", "f", "f", "i", "e", " ", "v", "o", "o", "r", " ", "EUR", "5">>, summary |-> <<>>,
     link |-> IF p = 1 THEN <<"p", "e", "p", "p", "e", "r", ".", "e", "x", "a", "m", "p", "l", "e", "/", "2">> ELSE <<"p", "e", "p", "p", "e", "r", ".", "e", "x", "a", "m", "p", "l", "e", "/", "3">>, published |-> None]
RaceFeeds(p) == {<<SharedEntry(p)>>, <<OwnEntry(p), SharedEntry(p)>>, <<SharedEntry(p), OwnEntry(p)>>}

\* a StoreConfig with two urls, and the pages its urls may give
OutletStore ==
    [key |-> "outlet", name |-> <<"O", "u", "t", "l", "e", "t">>, slug |-> <<"o", "u", "t", "l", "e", "t">>,
     category |-> "home", urls |-> <<"outlet.example/a", "outlet.example/b">>, json_ld |-> TRUE]
OutletPages ==
    {NoPage, HtmlPage(<<ProductLamp>>, <<>>, <<>>), HtmlPage(<<>>, <<CardTv>>, <<>>),
     HtmlPage(<<ProductTv>>, <<CardTv>>, <<>>)}
OutletWeb(first, second) ==
    [u \in {OutletStore.urls[1], OutletStore.urls[2]} |-> IF u = OutletStore.urls[1] THEN first ELSE second]

\* deals handed to add_deal at time t: two scraped by the stores, one of
\* PepperScraper (pending), and an earlier scrape that ended before t
ListDeals(t) ==
    {create_deal_from_data(ProductTv, STORES[1], t).v,
     create_deal_from_data(ProductLamp, STORES[2], t).v,
     parse_entry(EntryA, t).v,
     SeedScraped(t - 1)}
\* arguments of the listings
ListCategories == {None, Some("all"), Some("home")}
ListSorts == {<<"created_at", <<"d", "e", "s", "c">>>>, <<"sale_price", <<"a", "s", "c">>>>, <<"discount_percentage", <<"D", "E", "S", "C">>>>, <<"valid_until", <<"a", "s", "c">>>>}
ListWindows == {<<0, 24>>, <<1, 1>>}
ListQueries == {<<"S", "O", "N", "Y">>, <<"o">>, <<"z", "z">>}

\* deals handed to add_deal and update_deal: scraped on day 0 by the stores
\* and by PepperScraper, and two found in the file of an earlier day
EditDeals ==
    {create_deal_from_data(ProductTv, STORES[1], 0).v,
     create_deal_from_data(ProductLamp, STORES[2], 0).v,
     parse_entry(EntryA, 0).v,
     SeedScraped(-GraceDays),
     SeedHand(-(GraceDays + 1))}
\* the deal an admin form makes of d
Edited(d) == [d EXCEPT !.title = TitleEdited, !.discount_percentage = 1]

\* a product whose title holds no category keyword
TitlePlain == <<"C", "a", "d", "e", "a", "u", "b", "o", "n">>
ProductPlain == [name |-> TitlePlain, price |-> <<"1", "0", ".", "0", "0">>, high |-> <<"1", "2", ".", "5", "0">>]

\* price texts of a page, with the value each stands for (None: no price)
PriceExamples ==
    {[text |-> <<"EUR", "1", "9", ",", "9", "9">>, value |-> Some(1999 * Cent)],
     [text |-> <<"$", "1", "9", ",", "9", "9">>, value |-> Some(1999 * Cent)],
     [text |-> <<"1", "9", ",", "9", "9">>, value |-> Some(1999 * Cent)],
     [text |-> <<"1", ".", "2", "3", "4", ",", "5", "6">>, value |-> Some(123456 * Cent)],
     [text |-> <<>>, value |-> None],
     [text |-> <<"a", "b", "c">>, value |-> None]}

\* data/deals.json as a run of run_scrapers leaves it from a page that lists
\* the Sony tv twice: two records of one id
DoubledFile ==
    save_deals(<<create_deal_from_data(ProductTv, STORES[1], 0).v, create_deal_from_data(ProductTvB, STORES[1], 0).v>>)
EditFiles == {<<>>, DoubledFile}
\* ------------------------------------------------------------------ state
VARIABLES
    file,             \* the records of data/deals.json
    now,              \* the day datetime.now() gives
    web,              \* what a fetch of each url gives
    pc,               \* where the run of run_scrapers.main is
    argv,             \* sys.argv[1:] of the scheduled job
    existing_deals,   \* main: the deals loaded at the start
    existing_ids,     \* main: their ids
    stores_to_scrape, \* MultiStoreScraper: the stores still to scrape
    all_deals,        \* fetch_deals: the deals collected so far
    new_deals,        \* main: what run_stores returned
    unique_new,       \* main: the deals filtered for saving
    removed,          \* main: what cleanup_expired_deals returned
    exit_code,        \* exit status of the last run (-1: none ended yet)
    repeat,           \* history: the run started right after a run ended, nothing in between
    admin_n,          \* history: requests served on the store by hand
    admin_log,        \* history: the last such request since the run started
    db,               \* the rows of the deals table of the sqlite database
    call,             \* the last call of a parser or of a database job, with its input
    out,              \* the deals that call produced
    cache,            \* the cache files of FEEDS_DIR, by url
    clock,            \* datetime.now().timestamp(), in seconds
    scrapers          \* the executions of BaseScraper.run under way, by process

pipeVars == <<file, now, web, pc, argv, existing_deals, existing_ids, stores_to_scrape, all_deals, new_deals, unique_new, removed, exit_code, repeat, admin_n, admin_log>>
cacheVars == <<cache, clock>>
raceVars == <<scrapers>>
sourceVars == <<db, call, out, cacheVars, raceVars>>
vars == <<pipeVars, sourceVars>>

NoLog == [op |-> "none", id |-> <<>>, deal |-> ProductTv, at |-> "idle"]
NoCall == [fn |-> "none", arg |-> <<>>]
\* an execution of BaseScraper.run: pc is "idle" (not started), "check"
\* (before deal_exists of the next deal), "insert" (deal_exists returned
\* False, before insert_deal) or "done"; deals are the deals of
\* fetch_deals still to go, new_deals the counter, added the ids counted
NotStarted == [pc |-> "idle", deals |-> <<>>, new_deals |-> 0, added |-> {}]

Idle == pc \in {"idle", "done"}
\* after load_deals and before save_deals of the run
InWindow == pc = "scraping"

InitPipe ==
    /\ \E sc \in Scenarios :
        /\ file = sc.file
        /\ web = sc.web
        /\ argv = sc.argv
    /\ now = 0
    /\ pc = "idle"
    /\ existing_deals = <<>>
    /\ existing_ids = {}
    /\ stores_to_scrape = <<>>
    /\ all_deals = <<>>
    /\ new_deals = <<>>
    /\ unique_new = <<>>
    /\ removed = 0
    /\ exit_code = -1
    /\ repeat = FALSE
    /\ admin_n = 0
    /\ admin_log = NoLog

InitSources ==
    /\ db = {}
    /\ call = NoCall
    /\ out = <<>>
    /\ cache = [u \in FeedUrls |-> NoCacheFile]
    /\ clock = 0
    /\ scrapers = [p \in Procs |-> NotStarted]

\* main, lines 57-88: load the store, read the selector, build the scraper;
\* an unknown selector prints a message and returns
MainStart ==
    /\ Idle
    /\ existing_deals' = load_deals(file, now)
    /\ existing_ids' = IdsOf(load_deals(file, now))
    /\ IF Selection(argv).run
       THEN /\ pc' = "scraping"
            /\ stores_to_scrape' = stores_to_scrape_of(Selection(argv).stores)
            /\ UNCHANGED exit_code
       ELSE /\ pc' = "done"
            /\ stores_to_scrape' = <<>>
            /\ exit_code' = 0
    /\ repeat' = (pc = "done")
    /\ all_deals' = <<>>
    /\ new_deals' = <<>>
    /\ unique_new' = <<>>
    /\ removed' = 0
    /\ admin_log' = NoLog
    /\ UNCHANGED <<file, now, web, argv, admin_n>>
    /\ UNCHANGED sourceVars

\* fetch_deals, lines 342-355: one store
FetchStore ==
    /\ pc = "scraping"
    /\ stores_to_scrape # <<>>
    /\ all_deals' = fetch_deals_step(all_deals, Head(stores_to_scrape), web, now)
    /\ stores_to_scrape' = Tail(stores_to_scrape)
    /\ UNCHANGED <<file, now, web, pc, argv, existing_deals, existing_ids, new_deals, unique_new, removed, exit_code, repeat, admin_n, admin_log>>
    /\ UNCHANGED sourceVars

\* fetch_deals returns; run_stores, lines 37-43; main, lines 90-96: filter,
\* combine and save
MainMerge ==
    /\ pc = "scraping"
    /\ stores_to_scrape = <<>>
    /\ new_deals' = MarkApproved(all_deals)
    /\ unique_new' = UniqueNew(MarkApproved(all_deals), existing_ids)
    /\ file' = save_deals(existing_deals \o UniqueNew(MarkApproved(all_deals), existing_ids))
    /\ pc' = "saved"
    /\ UNCHANGED <<now, web, argv, existing_deals, existing_ids, stores_to_scrape, all_deals, removed, exit_code, repeat, admin_n, admin_log>>
    /\ UNCHANGED sourceVars

\* main, lines 98-111: cleanup, summary, normal return
MainCleanup ==
    /\ pc = "saved"
    /\ file' = cleanup_expired_deals(file, now).file
    /\ removed' = cleanup_expired_deals(file, now).ret
    /\ pc' = "done"
    /\ exit_code' = 0
    /\ UNCHANGED <<now, web, argv, existing_deals, existing_ids, stores_to_scrape, all_deals, new_deals, unique_new, repeat, admin_n, admin_log>>
    /\ UNCHANGED sourceVars

\* the process of the run has exited: its locals are gone
LocalsGone ==
    /\ existing_deals' = <<>>
    /\ existing_ids' = {}
    /\ all_deals' = <<>>
    /\ new_deals' = <<>>
    /\ unique_new' = <<>>
    /\ removed' = 0
    /\ repeat' = FALSE

\* what every request to the store leaves of the run's bookkeeping
AdminFrame(entry) ==
    /\ admin_n' = admin_n + 1
    /\ pc' = IF pc = "done" THEN "idle" ELSE pc
    /\ admin_log' = entry
    /\ IF Idle THEN LocalsGone
       ELSE UNCHANGED <<existing_deals, existing_ids, all_deals, new_deals, unique_new, removed, repeat>>
    /\ UNCHANGED <<now, web, argv, stores_to_scrape, exit_code>>
    /\ UNCHANGED sourceVars

LogEntry(op, id, deal) == [op |-> op, id |-> id, deal |-> deal, at |-> pc]

\* at most MaxAdmin requests, and at most one while a run is between its
\* load and its save
AdminMay == admin_n < MaxAdmin /\ (InWindow => admin_log = NoLog)

\* admin_add_deal
AdminAdd ==
    /\ AdminMay
    /\ LET deal == AdminNewDeal(TitleEdited, ShopHand, Price(20), Price(10), "other", StoreValidDays, Stamp(admin_n), now)
       IN  /\ file' = add_deal(file, deal, now).file
           /\ AdminFrame(LogEntry("add", deal.id, to_dict(deal)))

\* admin_update_deal
AdminUpdate ==
    /\ AdminMay
    /\ \E deal_id \in IdsOf(file) \cup {<<"g", "o", "n", "e">>} :
        LET existing == get_deal_by_id(file, deal_id, now)
        IN  IF ~existing.some
            THEN /\ file' = file
                 /\ AdminFrame(LogEntry("missed", deal_id, ProductTv))
            ELSE LET updated == AdminUpdatedDeal(existing.v, deal_id, TitleEdited, ShopHand, Price(20), Price(10), "other", StoreValidDays, now)
                 IN  /\ file' = update_deal(file, deal_id, updated, now).file
                     /\ AdminFrame(LogEntry("update", deal_id, to_dict(updated)))

\* admin_delete_deal
AdminDelete ==
    /\ AdminMay
    /\ \E deal_id \in IdsOf(file) \cup {<<"g", "o", "n", "e">>} :
        /\ file' = delete_deal(file, deal_id, now).file
        /\ AdminFrame(LogEntry(IF deal_id \in IdsOf(file) THEN "delete" ELSE "missed", deal_id, ProductTv))

\* a caller of add_deals with a batch of scraped deals
CallAddDeals ==
    /\ AdminMay
    /\ \E batch \in AddBatches(now) :
        /\ file' = add_deals(file, batch, now).file
        /\ AdminFrame(LogEntry("add_deals", <<>>, ProductTv))

\* the clock moves on by a day, between operations
Tick ==
    /\ Idle
    /\ now < MaxDay
    /\ now' = now + 1
    /\ pc' = "idle"
    /\ LocalsGone
    /\ UNCHANGED <<file, web, argv, stores_to_scrape, exit_code, admin_n, admin_log>>
    /\ UNCHANGED sourceVars

\* the same requests while no run is under way (a single writer)
SoloAdminAdd == Idle /\ AdminAdd
SoloAdminUpdate == Idle /\ AdminUpdate
SoloAdminDelete == Idle /\ AdminDelete
SoloAddDeals == Idle /\ CallAddDeals

Init == InitPipe /\ InitSources

\* the scheduled job and the requests by hand, one at a time (single writer)
Next ==
    \/ MainStart \/ FetchStore \/ MainMerge \/ MainCleanup
    \/ SoloAdminAdd \/ SoloAdminUpdate \/ SoloAdminDelete \/ SoloAddDeals
    \/ Tick

Spec == Init /\ [][Next]_vars

\* requests by hand served at any point of a run
NextConc ==
    \/ MainStart \/ FetchStore \/ MainMerge \/ MainCleanup
    \/ AdminAdd \/ AdminUpdate \/ AdminDelete \/ CallAddDeals
    \/ Tick

SpecConc == Init /\ [][NextConc]_vars

\* the scheduled job alone; a started run goes on: main is a sequential
\* program whose every step returns (the fetches have timeouts)
NextRun == MainStart \/ FetchStore \/ MainMerge \/ MainCleanup \/ Tick

\* WF_vars(FetchStore) with its ENABLED written out: the step is enabled
\* exactly under its two guards, and each one shortens stores_to_scrape
FetchStoreFair ==
    \/ []<>(~(pc = "scraping" /\ stores_to_scrape # <<>>))
    \/ []<><<FetchStore>>_vars

\* the process of a started run keeps running: each of its steps is taken
SpecLive ==
    /\ Init
    /\ [][NextRun]_vars
    /\ FetchStoreFair
    /\ WF_vars(MainMerge)
    /\ WF_vars(MainCleanup)

\* ------------------------------------------- the database jobs, one at a time
\* the store of the pipeline is left alone here
InitFeed ==
    /\ file = <<>>
    /\ web = FullWeb
    /\ argv = <<>>
    /\ now = 0
    /\ pc = "idle"
    /\ existing_deals = <<>>
    /\ existing_ids = {}
    /\ stores_to_scrape = <<>>
    /\ all_deals = <<>>
    /\ new_deals = <<>>
    /\ unique_new = <<>>
    /\ removed = 0
    /\ exit_code = -1
    /\ repeat = FALSE
    /\ admin_n = 0
    /\ admin_log = NoLog
    /\ InitSources

\* scripts/update_feeds.py: update_deals_from_feeds
UpdateFromFeeds ==
    /\ \E feeds \in FeedSets :
        /\ db' = update_deals_from_feeds(db, feeds, now)
        /\ out' = FeedsParsed(feeds, now)
        /\ call' = [fn |-> "update_deals_from_feeds", arg |-> feeds]
    /\ UNCHANGED <<pipeVars, cacheVars, raceVars>>

\* approve_deal on a row of the table it changes
ApproveDeal ==
    /\ \E r \in {x \in db : x.status # APPROVED} :
        /\ db' = approve_deal(db, r.id)
        /\ call' = [fn |-> "approve_deal", arg |-> r.id]
    /\ out' = <<>>
    /\ UNCHANGED <<pipeVars, cacheVars, raceVars>>

\* reject_deal on a row of the table it changes
RejectDeal ==
    /\ \E r \in {x \in db : x.status # REJECTED} :
        /\ db' = reject_deal(db, r.id)
        /\ call' = [fn |-> "reject_deal", arg |-> r.id]
    /\ out' = <<>>
    /\ UNCHANGED <<pipeVars, cacheVars, raceVars>>

\* BaseScraper.run of the PepperScraper: fetch_deals, then the insert loop
PepperRun ==
    /\ \E entries \in PepperFeeds :
        LET deals == parse_feed(entries, now)
        IN  /\ db' = run(db, deals)
            /\ out' = deals
            /\ call' = [fn |-> "run", arg |-> entries]
    /\ UNCHANGED <<pipeVars, cacheVars, raceVars>>

NextFeed == UpdateFromFeeds \/ ApproveDeal \/ RejectDeal \/ PepperRun \/ Tick

SpecFeed == InitFeed /\ [][NextFeed]_vars

\* ------------------------------------------------ the parsers, call by call
\* the parsers read the clock only
InitParse ==
    /\ now \in 0..MaxDay
    /\ file = <<>>
    /\ web = FullWeb
    /\ argv = <<>>
    /\ pc = "idle"
    /\ existing_deals = <<>>
    /\ existing_ids = {}
    /\ stores_to_scrape = <<>>
    /\ all_deals = <<>>
    /\ new_deals = <<>>
    /\ unique_new = <<>>
    /\ removed = 0
    /\ exit_code = -1
    /\ repeat = FALSE
    /\ admin_n = 0
    /\ admin_log = NoLog
    /\ InitSources

CallDaisycon ==
    /\ \E item \in DaisyconItems :
        /\ out' = parse_daisycon_feed(Doc(<<item>>), now)
        /\ call' = [fn |-> "parse_daisycon_feed", arg |-> item]
    /\ UNCHANGED <<pipeVars, db, cacheVars, raceVars>>

CallTradetracker ==
    /\ \E item \in TradetrackerItems :
        /\ out' = parse_tradetracker_feed(Doc(<<item>>), now)
        /\ call' = [fn |-> "parse_tradetracker_feed", arg |-> item]
    /\ UNCHANGED <<pipeVars, db, cacheVars, raceVars>>

CallParseEntry ==
    /\ \E entry \in PepperEntries :
        /\ out' = ListOf(parse_entry(entry, now))
        /\ call' = [fn |-> "_parse_entry", arg |-> entry]
    /\ UNCHANGED <<pipeVars, db, cacheVars, raceVars>>

CallCreateDeal ==
    /\ \E data \in JsonProducts, i \in 1..Len(STORES) :
        /\ out' = ListOf(create_deal_from_data(data, STORES[i], now))
        /\ call' = [fn |-> "_create_deal_from_data", arg |-> data]
    /\ UNCHANGED <<pipeVars, db, cacheVars, raceVars>>

CallParseHtml ==
    /\ \E cards \in HtmlCardSets, i \in 1..Len(STORES) :
        /\ out' = parse_html_generic(cards, STORES[i], now)
        /\ call' = [fn |-> "_parse_html_generic", arg |-> cards]
    /\ UNCHANGED <<pipeVars, db, cacheVars, raceVars>>

NextParse == CallDaisycon \/ CallTradetracker \/ CallParseEntry \/ CallCreateDeal \/ CallParseHtml

SpecParse == InitParse /\ [][NextParse]_vars

\* ------------------------------------------------ fetch_feed, call by call
InitFetch ==
    /\ now = 0
    /\ file = <<>>
    /\ web = FullWeb
    /\ argv = <<>>
    /\ pc = "idle"
    /\ existing_deals = <<>>
    /\ existing_ids = {}
    /\ stores_to_scrape = <<>>
    /\ all_deals = <<>>
    /\ new_deals = <<>>
    /\ unique_new = <<>>
    /\ removed = 0
    /\ exit_code = -1
    /\ repeat = FALSE
    /\ admin_n = 0
    /\ admin_log = NoLog
    /\ InitSources

\* a call fetch_feed(url, cache_hours): call keeps the arguments, the
\* cache file and the time of the call, out what the call gave
CallFetchFeed ==
    /\ \E url \in FeedUrls, cache_hours \in CacheHours, net \in NetOutcomes, wr \in WriteOutcomes :
        /\ out' = fetch_feed(cache[url], clock, cache_hours, net, wr)
        /\ cache' = [cache EXCEPT ![url] = fetch_feed(cache[url], clock, cache_hours, net, wr).file]
        /\ call' = [fn |-> "fetch_feed",
                    arg |-> [url |-> url, cache_hours |-> cache_hours, net |-> net, wr |-> wr,
                             before |-> cache[url], at |-> clock]]
    /\ UNCHANGED <<pipeVars, db, clock, raceVars>>

\* the environment takes the read permission of a cache file away
ProtectCache ==
    /\ \E url \in FeedUrls :
        /\ cache[url].kind \in {"ok", "undecodable"}
        /\ cache' = [cache EXCEPT ![url].kind = "unreadable"]
    /\ UNCHANGED <<pipeVars, db, call, out, clock, raceVars>>

\* an hour passes between calls
ClockTick ==
    /\ clock < MaxHours * HourSeconds
    /\ clock' = clock + HourSeconds
    /\ UNCHANGED <<pipeVars, db, call, out, cache, raceVars>>

NextFetch == CallFetchFeed \/ ProtectCache \/ ClockTick

SpecFetch == InitFetch /\ [][NextFetch]_vars

\* --------------------------------- classifiers and examples, call by call
\* the functions keep nothing between calls: a behaviour is one call
InitCalls == InitFetch
NotCalled == call = NoCall

CallMapCategory ==
    /\ NotCalled
    /\ \E arg \in CategoryArgs :
        /\ out' = <<MapCategoryOf(arg)>>
        /\ call' = [fn |-> "map_category", arg |-> arg]
    /\ UNCHANGED <<pipeVars, db, cacheVars, raceVars>>

CallDetectCategory ==
    /\ NotCalled
    /\ \E arg \in CategoryArgs :
        /\ out' = <<detect_category(Formatted(arg), <<>>)>>
        /\ call' = [fn |-> "detect_category", arg |-> arg]
    /\ UNCHANGED <<pipeVars, db, cacheVars, raceVars>>

\* parse_daisycon_feed on a document with one product of the example
CallDaisyconAcme ==
    /\ NotCalled
    /\ \E item \in AcmeItems :
        /\ out' = parse_daisycon_feed(Doc(<<item>>), now)
        /\ call' = [fn |-> "parse_daisycon_feed", arg |-> item]
    /\ UNCHANGED <<pipeVars, db, cacheVars, raceVars>>

\* _parse_entry on the entries of the model and on those of the example
CallParseEntryBol ==
    /\ NotCalled
    /\ \E entry \in PepperEntries \cup BolEntries :
        /\ out' = ListOf(parse_entry(entry, now))
        /\ call' = [fn |-> "_parse_entry", arg |-> entry]
    /\ UNCHANGED <<pipeVars, db, cacheVars, raceVars>>

\* the four sources on a document of n items: _scrape_store on a page of n
\* Product annotations, _parse_feed on n entries, the feed parsers on n
\* product elements
CallScrapeMany ==
    /\ NotCalled
    /\ \E n \in ManyCounts :
        /\ out' = scrape_store(STORES[1], WebOf(HtmlPage(ManyOf(ProductTv, n), <<>>, <<>>), LampPage), now).deals
        /\ call' = [fn |-> "_scrape_store", arg |-> [items |-> n]]
    /\ UNCHANGED <<pipeVars, db, cacheVars, raceVars>>

CallPepperMany ==
    /\ NotCalled
    /\ \E n \in ManyCounts :
        /\ out' = parse_feed(ManyOf(EntryA, n), now)
        /\ call' = [fn |-> "_parse_feed", arg |-> [items |-> n]]
    /\ UNCHANGED <<pipeVars, db, cacheVars, raceVars>>

CallDaisyconMany ==
    /\ NotCalled
    /\ \E n \in ManyCounts :
        /\ out' = parse_daisycon_feed(Doc(ManyOf(KettleA, n)), now)
        /\ call' = [fn |-> "parse_daisycon_feed", arg |-> [items |-> n]]
    /\ UNCHANGED <<pipeVars, db, cacheVars, raceVars>>

CallTradetrackerMany ==
    /\ NotCalled
    /\ \E n \in ManyCounts :
        /\ out' = parse_tradetracker_feed(Doc(ManyOf(KettleT, n)), now)
        /\ call' = [fn |-> "parse_tradetracker_feed", arg |-> [items |-> n]]
    /\ UNCHANGED <<pipeVars, db, cacheVars, raceVars>>

CallScrapePages ==
    /\ NotCalled
    /\ \E first \in OutletPages, second \in OutletPages :
        /\ out' = scrape_store(OutletStore, OutletWeb(first, second), now).deals
        /\ call' = [fn |-> "_scrape_store", arg |-> [pages |-> <<first, second>>]]
    /\ UNCHANGED <<pipeVars, db, cacheVars, raceVars>>

CallCreateDealPlain ==
    /\ NotCalled
    /\ \E i \in 1..Len(STORES) :
        /\ out' = ListOf(create_deal_from_data(ProductPlain, STORES[i], now))
        /\ call' = [fn |-> "_create_deal_from_data", arg |-> [data |-> ProductPlain, config |-> STORES[i]]]
    /\ UNCHANGED <<pipeVars, db, cacheVars, raceVars>>

CallParsePrice ==
    /\ NotCalled
    /\ \E example \in PriceExamples :
        /\ out' = <<parse_price(example.text)>>
        /\ call' = [fn |-> "parse_price", arg |-> example]
    /\ UNCHANGED <<pipeVars, db, cacheVars, raceVars>>

NextCalls ==
    \/ CallMapCategory \/ CallDetectCategory \/ CallDaisyconAcme \/ CallParseEntryBol
    \/ CallScrapeMany \/ CallPepperMany \/ CallDaisyconMany \/ CallTradetrackerMany
    \/ CallScrapePages \/ CallCreateDealPlain \/ CallParsePrice

SpecCalls == InitCalls /\ [][NextCalls]_vars

\* --------------------------- executions of BaseScraper.run side by side
InitRace == InitFetch

\* run, lines 71-73: fetch_deals of the scraper of process p
ScraperFetch(p) ==
    /\ scrapers[p].pc = "idle"
    /\ \E entries \in RaceFeeds(p) :
        scrapers' = [scrapers EXCEPT ![p] =
            [pc |-> IF parse_feed(entries, now) = <<>> THEN "done" ELSE "check",
             deals |-> parse_feed(entries, now), new_deals |-> 0, added |-> {}]]
    /\ UNCHANGED <<pipeVars, db, call, out, cacheVars>>

\* run, line 76: deal_exists(deal.id) for the next deal of process p
ScraperCheck(p) ==
    /\ scrapers[p].pc = "check"
    /\ scrapers' = [scrapers EXCEPT ![p] =
            IF deal_exists(db, Head(scrapers[p].deals).id)
            THEN [@ EXCEPT !.deals = Tail(@), !.pc = IF Tail(scrapers[p].deals) = <<>> THEN "done" ELSE "check"]
            ELSE [@ EXCEPT !.pc = "insert"]]
    /\ call' = [fn |-> "deal_exists", arg |-> Head(scrapers[p].deals).id]
    /\ UNCHANGED <<pipeVars, db, out, cacheVars>>

\* run, lines 77-78: insert_deal(deal) and the counter, process p
ScraperInsert(p) ==
    /\ scrapers[p].pc = "insert"
    /\ db' = insert_deal(db, Head(scrapers[p].deals))
    /\ scrapers' = [scrapers EXCEPT ![p] =
            [pc |-> IF Tail(scrapers[p].deals) = <<>> THEN "done" ELSE "check",
             deals |-> Tail(scrapers[p].deals),
             new_deals |-> scrapers[p].new_deals + 1,
             added |-> scrapers[p].added \cup {Head(scrapers[p].deals).id}]]
    /\ call' = [fn |-> "insert_deal", arg |-> Head(scrapers[p].deals).id]
    /\ UNCHANGED <<pipeVars, out, cacheVars>>

NextRace == \E p \in Procs : ScraperFetch(p) \/ ScraperCheck(p) \/ ScraperInsert(p)

SpecRace == InitRace /\ [][NextRace]_vars

\* ------------------------------------------- the JSON store, call by call
\* what the functions of deals_store.py leave alone
storeRest == <<web, pc, argv, existing_deals, existing_ids, stores_to_scrape, all_deals, new_deals, unique_new, removed, exit_code, repeat, admin_n, admin_log>>

InitStore == InitParse

StoreAddDeal ==
    /\ \E deal \in ListDeals(now) :
        /\ file' = add_deal(file, deal, now).file
        /\ out' = <<>>
        /\ call' = [fn |-> "add_deal", arg |-> deal, before |-> file, ret |-> add_deal(file, deal, now).ret]
    /\ UNCHANGED <<now, storeRest, db, cacheVars, raceVars>>

ListGetAll ==
    /\ \E category \in ListCategories, sort \in ListSorts, window \in ListWindows :
        /\ out' = get_all_deals(file, category, window[2], window[1], sort[1], sort[2], now)
        /\ call' = [fn |-> "get_all_deals", arg |-> [category |-> category, sort |-> sort, window |-> window], before |-> file, ret |-> 0]
    /\ UNCHANGED <<file, now, storeRest, db, cacheVars, raceVars>>

ListCount ==
    /\ \E category \in ListCategories :
        /\ out' = <<>>
        /\ call' = [fn |-> "count_deals", arg |-> category, before |-> file, ret |-> count_deals(file, category, now)]
    /\ UNCHANGED <<file, now, storeRest, db, cacheVars, raceVars>>

ListSearch ==
    /\ \E query \in ListQueries, limit \in {1, 50} :
        /\ out' = search_deals(file, query, limit, now)
        /\ call' = [fn |-> "search_deals", arg |-> [query |-> query, limit |-> limit], before |-> file, ret |-> 0]
    /\ UNCHANGED <<file, now, storeRest, db, cacheVars, raceVars>>

NextStore == StoreAddDeal \/ ListGetAll \/ ListCount \/ ListSearch \/ Tick

SpecStore == InitStore /\ [][NextStore]_vars

\* ------------------------------- the JSON store, its writers call by call
InitEdit ==
    /\ now = 0
    /\ file \in EditFiles
    /\ web = FullWeb
    /\ argv = <<>>
    /\ pc = "idle"
    /\ existing_deals = <<>>
    /\ existing_ids = {}
    /\ stores_to_scrape = <<>>
    /\ all_deals = <<>>
    /\ new_deals = <<>>
    /\ unique_new = <<>>
    /\ removed = 0
    /\ exit_code = -1
    /\ repeat = FALSE
    /\ admin_n = 0
    /\ admin_log = NoLog
    /\ InitSources

EditAdd ==
    /\ Len(file) < MaxStored
    /\ \E deal \in EditDeals :
        /\ file' = add_deal(file, deal, now).file
        /\ call' = [fn |-> "add_deal", arg |-> deal.id, before |-> file,
                    ret |-> add_deal(file, deal, now).ret, saved |-> add_deal(file, deal, now).saved]
    /\ UNCHANGED <<now, storeRest, db, out, cacheVars, raceVars>>

EditUpdate ==
    /\ \E deal \in EditDeals :
        /\ file' = update_deal(file, deal.id, Edited(deal), now).file
        /\ call' = [fn |-> "update_deal", arg |-> deal.id, before |-> file,
                    ret |-> update_deal(file, deal.id, Edited(deal), now).ret,
                    saved |-> update_deal(file, deal.id, Edited(deal), now).saved]
    /\ UNCHANGED <<now, storeRest, db, out, cacheVars, raceVars>>

EditDelete ==
    /\ \E deal \in EditDeals :
        /\ file' = delete_deal(file, deal.id, now).file
        /\ call' = [fn |-> "delete_deal", arg |-> deal.id, before |-> file,
                    ret |-> delete_deal(file, deal.id, now).ret, saved |-> delete_deal(file, deal.id, now).saved]
    /\ UNCHANGED <<now, storeRest, db, out, cacheVars, raceVars>>

EditCleanup ==
    /\ file' = cleanup_expired_deals(file, now).file
    /\ call' = [fn |-> "cleanup_expired_deals", arg |-> now, before |-> file,
                ret |-> cleanup_expired_deals(file, now).ret, saved |-> cleanup_expired_deals(file, now).saved]
    /\ UNCHANGED <<now, storeRest, db, out, cacheVars, raceVars>>

NextEdit == EditAdd \/ EditUpdate \/ EditDelete \/ EditCleanup \/ Tick

SpecEdit == InitEdit /\ [][NextEdit]_vars

\* ------------------------------------------------------------ properties
\* the records of f with the given id, in file order
RecordsOf(f, id) ==
    LET Keep(r) == r.id = id
    IN  SelectSeq(f, Keep)

\* the merge step of a run, and a call of add_deals, as steps
IsMergeStep == pc = "scraping" /\ pc' = "saved"
IsAddDealsStep == admin_n' = admin_n + 1 /\ admin_log'.op = "add_deals"

\* C1 (merge stability): over a merge step of run_scrapers.main and over a
\* call of add_deals, every id persisted before has afterwards exactly the
\* records it had before, each with every field unchanged, also when the
\* batch holds a deal with that id and other field values.  Single writer.
MergeStability ==
    [][(IsMergeStep \/ IsAddDealsStep)
        => \A id \in IdsOf(file) : RecordsOf(file', id) = RecordsOf(file, id)]_vars

\* a merge has saved while the batch held a deal with a persisted id and
\* other field values, next to a deal that was new
MergeStabilityWitness ==
    /\ pc = "saved"
    /\ unique_new # <<>>
    /\ \E i \in 1..Len(new_deals) :
        /\ new_deals[i].id \in existing_ids
        /\ \A j \in 1..Len(existing_deals) : existing_deals[j] # new_deals[i]
        /\ to_dict(new_deals[i]) \notin {file[k] : k \in 1..Len(file)}

\* the first place of the batch with the given id
FirstPlace(deals, id) ==
    CHOOSE i \in 1..Len(deals) : deals[i].id = id /\ \A j \in 1..(i - 1) : deals[j].id # id

\* C2 (in-batch duplicates): after the merge of a run, an id of the batch
\* that was not persisted at the load has exactly one persisted record, the
\* one of the first deal of the batch with that id.
FirstOfBatchOnly ==
    pc = "saved" =>
        \A id \in IdsOf(new_deals) \ existing_ids :
            RecordsOf(file, id) = <<to_dict(new_deals[FirstPlace(new_deals, id)])>>


\* C3 (idempotence): a run that starts right after another run of the same
\* job ended, with the same pages and nothing done in between, adds no deal
\* and ends with the ids persisted that the run before it left.
SecondRunChangesNothing ==
    (pc = "done" /\ repeat) => (unique_new = <<>> /\ IdsOf(file) = existing_ids)

\* the request by hand served between the load and the save of the run is
\* in effect in the store
LoggedInEffect ==
    CASE admin_log.op = "add" -> RecordsOf(file, admin_log.id) = <<admin_log.deal>>
      [] admin_log.op = "update" -> RecordsOf(file, admin_log.id) = <<admin_log.deal>>
      [] admin_log.op = "delete" -> admin_log.id \notin IdsOf(file)
      [] OTHER -> TRUE

\* C4 (no stale overwrite): when the run has saved, an admin add, edit or
\* delete committed between its load_deals and its save_deals is still in
\* effect in the persisted set.
AdminSurvivesRun ==
    (pc = "saved" /\ admin_log.at = "scraping") => LoggedInEffect

\* C5 (feed re-ingestion): over a call of update_deals_from_feeds every row
\* of the table stays as it was, whatever the feed holds for its id.
FeedKeepsRows ==
    [][call'.fn = "update_deals_from_feeds" => \A r \in db : r \in db']_vars

\* 0 <= sale_price <= original_price and 0 <= discount_percentage <= 100
PricesInRange(d) ==
    /\ Le(0, d.sale_price)
    /\ Le(d.sale_price, d.original_price)
    /\ 0 <= d.discount_percentage
    /\ d.discount_percentage <= 100

\* C6 (feed prices): every Deal parse_daisycon_feed and
\* parse_tradetracker_feed return has 0 <= sale_price <= original_price and
\* 0 <= discount_percentage <= 100.
FeedPricesInRange ==
    call.fn \in {"parse_daisycon_feed", "parse_tradetracker_feed"}
        => \A i \in 1..Len(out) : PricesInRange(out[i])

\* C7 (scraped prices): every Deal _create_deal_from_data,
\* _parse_html_generic and PepperScraper._parse_entry produce has, as
\* stored, 0 <= sale_price <= original_price and
\* 0 <= discount_percentage <= 100.
ScrapedPricesInRange ==
    call.fn \in {"_create_deal_from_data", "_parse_html_generic", "_parse_entry"}
        => \A i \in 1..Len(out) : PricesInRange(out[i])

\* C8 (validity): every Deal the feed parsers and _parse_entry produce has
\* valid_from <= valid_until.
ValidityOrdered ==
    call.fn \in {"parse_daisycon_feed", "parse_tradetracker_feed", "_parse_entry"}
        => \A i \in 1..Len(out) : out[i].valid_from <= out[i].valid_until

\* the records of f whose valid_until is on or after the day t - 7
RetainedAt(f, t) ==
    LET Keep(r) == r.valid_until.v >= t - 7
    IN  SelectSeq(f, Keep)

\* C9 (retention boundary): the cleanup of a run at day now leaves exactly
\* the persisted records with valid_until >= now - 7 days, in their order
\* and unchanged, whatever their status and is_active, and reports the
\* number it removed.
RetentionBoundary ==
    [][(pc = "saved" /\ pc' = "done")
        => /\ file' = RetainedAt(file, now)
           /\ removed' = Cardinality({k \in 1..Len(file) : file[k].valid_until.v < now - 7})]_vars

\* a cleanup has removed a record of 8 days ago and has kept one of exactly
\* 7 days ago that is pending and not active
RetentionBoundaryWitness ==
    /\ pc = "done"
    /\ removed > 0
    /\ \E k \in 1..Len(existing_deals) : existing_deals[k].valid_until = now - 8
    /\ \E k \in 1..Len(file) :
        file[k].valid_until.v = now - 7 /\ file[k].status = PENDING /\ ~file[k].is_active

\* the store of a selected store key has a page that parses
Succeeds(key) == web[StoreConfigOf(key).urls[1]].kind = "html"
Fails(key) == web[StoreConfigOf(key).urls[1]].kind \in {"none", "raise"}

\* the ids of the products annotated on the page of a store
PageIds(key) ==
    {generate_id(<<StoreConfigOf(key).slug, web[StoreConfigOf(key).urls[1]].jsonld[i].name>>) :
        i \in 1..Len(web[StoreConfigOf(key).urls[1]].jsonld)}

\* the store keys the job's arguments select
SelectedKeys ==
    {k \in StoreKeys : \E i \in 1..Len(stores_to_scrape_of(Selection(argv).stores)) :
        stores_to_scrape_of(Selection(argv).stores)[i] = k}

\* the run has ended with success, the deals of the stores that succeeded
\* persisted where their ids were new
EndedWell ==
    /\ pc = "done"
    /\ exit_code = 0
    /\ \A k \in SelectedKeys : Succeeds(k) => (PageIds(k) \ existing_ids) \subseteq IdsOf(file)

\* C10 (source-failure isolation): a started run, whichever of its stores
\* fail to fetch or raise in parsing, goes through the save and the
\* retention step, ends with exit status 0, and has the deals of the other
\* selected stores persisted.
RunEndsWell == (pc = "scraping") ~> EndedWell

\* a run has ended after a selected store failed, with a deal of another
\* store added
RunEndsWellWitness ==
    /\ EndedWell
    /\ \E k \in SelectedKeys : Fails(k)
    /\ unique_new # <<>>

\* the selector of the job names no configured store and no known category
InvalidSelector == argv # <<>> /\ ~Selection(argv).run

\* C11 (invalid selector): a run of run_scrapers.main started with a
\* selector that names no configured store and no known category ends with
\* an exit status other than 0.
InvalidSelectorFails == (pc = "done" /\ InvalidSelector) => exit_code # 0

\* a call of fetch_feed has just returned or raised
FetchCalled == call.fn = "fetch_feed"
\* the age in seconds of the url's cache file at the call
CacheAge == call.arg.at - call.arg.before.mtime
\* the call found a cache file that an earlier successful fetch wrote
FoundWritten == FetchCalled /\ call.arg.before.kind = "ok"

\* C12 (fetch cache): a call of fetch_feed(url, cache_hours) that finds
\* the cache file an earlier successful fetch of the url wrote, less than
\* cache_hours hours old, returns exactly the content that was cached and
\* makes no network request; at an age of cache_hours hours or more it
\* makes a network request.
CacheServesWindow ==
    FoundWritten =>
        IF CacheAge < call.arg.cache_hours * HourSeconds
        THEN ~out.raised /\ out.ret = Text(call.arg.before.data) /\ out.requests = 0
        ELSE out.requests = 1

\* C13 (no exception leaves fetch_feed): whatever the cache file is
\* (absent, fresh, stale, unreadable, undecodable) and whatever the network
\* does, the call returns the content or None and raises nothing.
FetchNeverRaises == FetchCalled => ~out.raised

\* C14 (best-effort cache write): a call whose network request succeeded
\* returns the fetched content, also when writing the cache file failed.
FailedWriteStillReturns ==
    (FetchCalled /\ out.requests = 1 /\ call.arg.net.kind = "ok")
        => out.ret = Text(call.arg.net.content)

\* a request admin_update_deal on an id of the store, as a step
IsUpdateStep == admin_n' = admin_n + 1 /\ admin_log'.op = "update"

\* C15 (admin edit): over admin_update_deal on an existing id the store
\* afterwards holds exactly one record with that id, whose id, source and
\* created_at are those the id had before, and every other record, and
\* the order of the list, is as before.
AdminEditFrame ==
    [][IsUpdateStep =>
        /\ Len(RecordsOf(file', admin_log'.id)) = 1
        /\ RecordsOf(file', admin_log'.id)[1].id = admin_log'.id
        /\ RecordsOf(file', admin_log'.id)[1].source = RecordsOf(file, admin_log'.id)[1].source
        /\ RecordsOf(file', admin_log'.id)[1].created_at = RecordsOf(file, admin_log'.id)[1].created_at
        /\ Len(file') = Len(file)
        /\ \A k \in 1..Len(file) : file[k].id # admin_log'.id => file'[k] = file[k]]_vars

\* the canonical categories: config.CATEGORIES without the pseudo-category
\* "all" of the listing pages
CanonicalCategories == {CATEGORIES[i] : i \in 1..Len(CATEGORIES)} \ {"all"}

\* C16 (category totality): for every text, None, the empty text, blanks
\* and a text that matches no keyword included, map_category and
\* detect_category return one of electronics, fashion, home, sports,
\* beauty, food, travel, other, and never "all".
CategoryTotal ==
    call.fn \in {"map_category", "detect_category"} =>
        /\ Len(out) = 1
        /\ out[1] \in CanonicalCategories
        /\ out[1] \in {"electronics", "fashion", "home", "sports", "beauty", "food", "travel", "other"}
        /\ out[1] # "all"

\* map_category has classified a text of blanks only, and a text that
\* matches nothing has been given "other"
CategoryTotalWitness ==
    /\ call.fn = "map_category"
    /\ call.arg \in {Absent, Text(<<"z", "z", "z">>), Text(<<"a", "l", "l">>)}
    /\ out = <<"other">>

\* the orders of 1..n, and a batch put in the order of one of them
Orders(n) == {p \in [1..n -> 1..n] : \A i, j \in 1..n : p[i] = p[j] => i = j}
Permuted(batch, p) == [i \in 1..Len(batch) |-> batch[p[i]]]

\* C17 (batch order): the set of ids persisted by the merge of a run, and
\* by a call of add_deals, is the same for every order of the batch.
BatchOrderFree ==
    [][/\ IsMergeStep =>
            \A p \in Orders(Len(all_deals)) :
                IdsOf(save_deals(existing_deals \o UniqueNew(MarkApproved(Permuted(all_deals, p)), existing_ids)))
                    = IdsOf(file')
       /\ IsAddDealsStep =>
            \A batch \in AddBatches(now) :
                file' = add_deals(file, batch, now).file =>
                    \A p \in Orders(Len(batch)) :
                        IdsOf(add_deals(file, Permuted(batch, p), now).file) = IdsOf(file')]_vars

\* a merge has saved a batch with two ids that were new, one of them
\* twice in the batch with other field values
BatchOrderFreeWitness ==
    /\ pc = "saved"
    /\ \E i, j \in 1..Len(unique_new) : unique_new[i].id # unique_new[j].id
    /\ \E i, j \in 1..Len(new_deals) : new_deals[i].id = new_deals[j].id /\ new_deals[i] # new_deals[j]

\* C18 (bounded candidates): _scrape_store, _parse_feed,
\* parse_daisycon_feed and parse_tradetracker_feed return at most 30 deals
\* for one store, feed or document, however many items it holds.
AtMostThirty ==
    call.fn \in {"_scrape_store", "_parse_feed", "parse_daisycon_feed", "parse_tradetracker_feed"}
        => Len(out) <= StoreLimit

\* C19 (affiliate-feed example): parse_daisycon_feed on a product with
\* price 29,99, price_old 49,99 and merchant_name Acme returns one Deal with
\* sale_price 29.99, original_price 49.99, discount_percentage 40, the
\* category map_category gives for the product's category text, and status
\* approved.
AcmeExample ==
    (call.fn = "parse_daisycon_feed" /\ call.arg \in AcmeItems) =>
        /\ Len(out) = 1
        /\ out[1].sale_price = 2999 * Cent
        /\ out[1].original_price = 4999 * Cent
        /\ out[1].discount_percentage = 40
        /\ out[1].category = map_category(findtext(call.arg, "category", <<>>))
        /\ out[1].status = APPROVED
        /\ out[1].merchant = <<"A", "c", "m", "e">>

\* the example has been parsed for a product whose category text maps to
\* a category other than "other"
AcmeExampleWitness ==
    /\ call.fn = "parse_daisycon_feed"
    /\ call.arg \in AcmeItems
    /\ call.arg.category = Text(<<"T", "u", "i", "n", " ", "&", " ", "W", "o", "n", "e", "n">>)
    /\ Len(out) = 1
    /\ out[1].category = "home"

\* C20 (syndication example): _parse_entry on an entry titled "Product X
\* voor EUR 19,99 (was EUR 39,99) @ Bol.com" returns a Deal with sale_price
\* 19.99, original_price 39.99, merchant Bol.com and status pending; every
\* Deal _parse_entry returns has status pending.
BolExample ==
    call.fn = "_parse_entry" =>
        /\ \A i \in 1..Len(out) : out[i].status = PENDING
        /\ call.arg.title = TitleBol =>
            /\ Len(out) = 1
            /\ out[1].sale_price = 1999 * Cent
            /\ out[1].original_price = 3999 * Cent
            /\ out[1].merchant = <<"B", "o", "l", ".", "c", "o", "m">>

\* the example has been parsed, with a summary that names another shop and
\* other prices
BolExampleWitness ==
    /\ call.fn = "_parse_entry"
    /\ call.arg.title = TitleBol
    /\ call.arg.summary # <<>>
    /\ Len(out) = 1
    /\ out[1].status = PENDING
    /\ out[1].discount_percentage = 50

\* no two records of the list f have the same id
UniqueIn(f) == \A i, j \in 1..Len(f) : f[i].id = f[j].id => i = j

\* C21 (id uniqueness): after any sequence of runs of run_scrapers.main,
\* add_deal, add_deals, admin edits, delete_deal and cleanup_expired_deals
\* on a store whose ids were unique, no two persisted records have the
\* same id.
IdsStayUnique == UniqueIn(file)

\* the id of the deal both executions produce
SharedId == generate_id(<<Pepper, LinkShared>>)

\* C22 (parallel sources): when two executions of BaseScraper.run both
\* produce a deal with an id that has no row yet, then for every
\* interleaving of their deal_exists and insert_deal calls the row stored
\* first for that id is never replaced, and when both have ended exactly
\* one of them has counted the id as new.
RaceFirstWins ==
    /\ []((\A p \in Procs : scrapers[p].pc = "done")
            => Cardinality({p \in Procs : SharedId \in scrapers[p].added}) = 1)
    /\ [][\A r \in db : r.id = SharedId => r \in db']_vars


\* floor((original_price - sale_price) / original_price * 100) of the prices
\* a Deal stores
FloorDiscount(d) == ((d.original_price - d.sale_price) * 100) \div d.original_price

\* C23 (discount consistency): every Deal a parser or scraper produces
\* stores discount_percentage = floor((original_price - sale_price) /
\* original_price * 100) of its own stored prices whenever
\* original_price > 0, the deals with an estimated original price included.
DiscountConsistent ==
    call.fn \in {"parse_daisycon_feed", "parse_tradetracker_feed", "_create_deal_from_data", "_parse_html_generic", "_parse_entry"}
        => \A i \in 1..Len(out) :
            Lt(0, out[i].original_price) /\ ~IsNaN(out[i].sale_price)
                => out[i].discount_percentage = FloorDiscount(out[i])

\* the deals of one fetched page when the pattern fallback is applied to it
\* if and only if its JSON-LD extraction produced no deal
PageByPage(page, config, t) ==
    IF page.kind # "html" THEN <<>>
    ELSE IF config.json_ld /\ parse_jsonld(page.jsonld, config, t) # <<>>
    THEN parse_jsonld(page.jsonld, config, t)
    ELSE parse_html_generic(page.cards, config, t)

\* C24 (two-pass extraction per page): in _scrape_store, for every fetched
\* page of a store, the second and later urls included, the generic HTML
\* pattern fallback is applied to that page if and only if JSON-LD
\* extraction on that same page produced zero deals.
FallbackPerPage ==
    call.fn = "_scrape_store" /\ "pages" \in DOMAIN call.arg
        => out = Prefix(PageByPage(call.arg.pages[1], OutletStore, now)
                        \o PageByPage(call.arg.pages[2], OutletStore, now), StoreLimit)

\* C25 (status governs visibility): get_all_deals, search_deals and
\* count_deals of the JSON store never return or count a deal whose status
\* is pending or rejected: only approved, active, unexpired deals are
\* visible.
OnlyApprovedListed ==
    /\ call.fn \in {"get_all_deals", "search_deals"}
        => \A i \in 1..Len(out) : out[i].status = APPROVED /\ ActiveAt(out[i], now)
    /\ call.fn = "count_deals"
        => LET Visible(d) == d.status = APPROVED /\ ActiveAt(d, now) /\ (CategoryGiven(call.arg) => d.category = call.arg.v)
           IN  call.ret = Len(SelectSeq(load_deals(file, now), Visible))

\* the list deals without the deals that ended more than GraceDays before t
Retained(deals, t) ==
    LET Keep(d) == d.valid_until >= t - GraceDays
    IN  SelectSeq(deals, Keep)

\* the step is a call of f
IsCallOf(f) == call'.fn = f /\ now' = now

\* C26 (retention is a pure filter): cleanup_expired_deals leaves every
\* retained deal with all fields unchanged and in the same relative order,
\* returns exactly (number of deals before) - (number after), performs no
\* write when nothing is removed, and a second call at the same time
\* removes 0 deals.
CleanupPureFilter ==
    [][IsCallOf("cleanup_expired_deals") =>
        /\ load_deals(file', now) = Retained(load_deals(file, now), now)
        /\ call'.ret = Len(file) - Len(file')
        /\ call'.ret = 0 => ~call'.saved /\ file' = file
        /\ cleanup_expired_deals(file', now).ret = 0
        /\ cleanup_expired_deals(file', now).file = file']_vars

\* a cleanup has dropped a deal from between two deals it kept, and one has
\* found nothing to drop in a file with deals
CleanupPureFilterWitness ==
    /\ call.fn = "cleanup_expired_deals"
    /\ call.ret = 1
    /\ Len(call.before) = 3
    /\ ~KeptByCleanup(load_deals(call.before, now)[2], now)
    /\ Len(file) = 2

\* the two-stage reference classifier on the lower-cased trimmed text
ReferenceCategory(normalized) ==
    IF normalized = <<>> THEN "other"
    ELSE IF \E i \in 1..Len(CATEGORY_MAPPING) : CATEGORY_MAPPING[i].key = normalized
    THEN CATEGORY_MAPPING[CHOOSE i \in 1..Len(CATEGORY_MAPPING) : CATEGORY_MAPPING[i].key = normalized].value
    ELSE IF \E i \in 1..Len(CATEGORY_MAPPING) : Contains(normalized, CATEGORY_MAPPING[i].key) \/ Contains(CATEGORY_MAPPING[i].key, normalized)
    THEN CATEGORY_MAPPING[CHOOSE i \in 1..Len(CATEGORY_MAPPING) :
            /\ Contains(normalized, CATEGORY_MAPPING[i].key) \/ Contains(CATEGORY_MAPPING[i].key, normalized)
            /\ \A k \in 1..(i - 1) : ~(Contains(normalized, CATEGORY_MAPPING[k].key) \/ Contains(CATEGORY_MAPPING[k].key, normalized))].value
    ELSE "other"

\* C27 (map_category against the reference classifier): for every input,
\* if the lower-cased trimmed text is empty the result is other; else if
\* it is a key of the synonym table the result is that key's category;
\* else if some key contains it or is contained in it the result is the
\* category of the first such key in table order; otherwise other.
MapCategoryIsReference ==
    call.fn = "map_category"
        => out = <<ReferenceCategory(IF call.arg.some THEN Strip(Lower(call.arg.v)) ELSE <<>>)>>

\* C28 (store primary-category fallback): in _create_deal_from_data, when
\* no category keyword matches the product title, the category of the Deal
\* produced is the primary category of the store (config.category), not
\* other.
PrimaryCategoryFallback ==
    /\ call.fn = "_create_deal_from_data"
    /\ CategoryHits(Lower(call.arg.data.name \o <<" ">>)) = {}
    => /\ Len(out) = 1
       /\ out[1].category = call.arg.config.category

\* C29 (locale-aware price parsing): parse_price strips a leading euro or
\* dollar sign and returns the non-negative numeric value of a price in
\* Dutch format (EUR19,99 and 19,99 give 19.99, 1.234,56 gives 1234.56),
\* and returns None, never raising, for an empty or unparsable text.
PriceParsed ==
    call.fn = "parse_price" => out = <<call.arg.value>>

\* the ids of the records of the file f
StoredIds(f) == {f[i].id : i \in 1..Len(f)}

\* the records of f whose id is not deal_id, in their order
Without(f, deal_id) ==
    LET Other(r) == r.id # deal_id
    IN  SelectSeq(f, Other)

\* the step is a call that must fail: add_deal with an id that is
\* persisted, update_deal or delete_deal with one that is not
IsFailingCall ==
    \/ IsCallOf("add_deal") /\ call'.arg \in StoredIds(file)
    \/ IsCallOf("update_deal") /\ call'.arg \notin StoredIds(file)
    \/ IsCallOf("delete_deal") /\ call'.arg \notin StoredIds(file)

\* C30 (failed store operations change nothing): add_deal with an id
\* already persisted, and update_deal or delete_deal with an id that is not
\* persisted, return False and leave the persisted list exactly as it was,
\* with no write; on success add_deal appends exactly one record,
\* delete_deal removes exactly the records with that id, and every other
\* record is unchanged.
FailedChangesNothing ==
    [][/\ IsFailingCall => call'.ret = FALSE /\ ~call'.saved /\ file' = file
       /\ IsCallOf("add_deal") /\ call'.arg \notin StoredIds(file)
            => /\ call'.ret = TRUE
               /\ Len(file') = Len(file) + 1
               /\ SubSeq(file', 1, Len(file)) = file
               /\ file'[Len(file')].id = call'.arg
       /\ IsCallOf("delete_deal") /\ call'.arg \in StoredIds(file)
            => /\ call'.ret = TRUE
               /\ file' = Without(file, call'.arg)]_vars

\* add_deal has refused a deal whose id two records of the file have
FailedChangesNothingWitness ==
    /\ call.fn = "add_deal"
    /\ call.ret = FALSE
    /\ file = call.before
    /\ Len(file) - Len(Without(file, call.arg)) = 2

====
